---- MODULE Spec2Model ----
(***************************************************************************)
(* diener: the manifest rewriting engine.                                  *)
(*                                                                         *)
(* A dependency entry (toml_edit::InlineTable) is a sequence of fields     *)
(* [k, v, d]: key, string value and decoration <<prefix, suffix>>; keys    *)
(* are unique within an entry and the sequence is the order the fields     *)
(* are serialized in.                                                      *)
(***************************************************************************)
EXTENDS Integers, Sequences, FiniteSets, TLC

(***************************************************************************)
(* Bounds of the model.                                                    *)
(***************************************************************************)
\* Manifests in the tree an Update run walks.
MaxManifests == 2
\* Fields of an entry whose fields are enumerated in every order.
MaxFields == 2
\* The crate directories of a workspace, besides its root.
MaxCrates == 2

(***************************************************************************)
(* Values.                                                                 *)
(***************************************************************************)
Names == {"foo", "bar"}

NoneStr == [some |-> FALSE, v |-> ""]
SomeStr(s) == [some |-> TRUE, v |-> s]
NoneBody == [some |-> FALSE, v |-> <<>>]
SomeBody(b) == [some |-> TRUE, v |-> b]

SubstrateUrl == "https://github.com/paritytech/substrate"
PolkadotUrl == "https://github.com/paritytech/polkadot.git"
CumulusUrl == "https://github.com/paritytech/cumulus"
BeefyUrl == "https://github.com/paritytech/grandpa-bridge-gadget"
OtherUrl == "https://github.com/paritytech/parity-common"
ForkUrl == "https://github.com/example/substrate"
MirrorUrl == "https://example.com/mirror/sub.git"
BadUrl == "::not a git url::"

\* The decoration a value read from a file carries, the one toml_edit gives
\* a value inserted without one, and the two the update policies set.
ParsedDecor == <<" ", "">>
DefaultDecor == <<" ", "">>
GitDecor == <<" ", "">>
RefDecor == <<" ", " ">>

Field(k, v) == [k |-> k, v |-> v, d |-> ParsedDecor]

(***************************************************************************)
(* toml_edit::InlineTable, as the policies use it.                         *)
(***************************************************************************)
ContainsKey(dep, key) == \E i \in 1..Len(dep) : dep[i].k = key

\* InlineTable::get(key).and_then(|v| v.as_str())
Get(dep, key) ==
    IF ContainsKey(dep, key)
    THEN SomeStr(dep[CHOOSE i \in 1..Len(dep) : dep[i].k = key].v)
    ELSE NoneStr

\* InlineTable::remove(key): the field leaves, the others keep their order.
Remove(dep, key) == SelectSeq(dep, LAMBDA f : f.k # key)

\* Mutant: the new value is appended even when the key exists.
AppendValue(dep, key, v, decor) == Append(dep, [k |-> key, v |-> v, d |-> decor])

\* *dep.get_or_insert(key, "") = Value::from(v).decorated(prefix, suffix),
\* and InlineTable::insert(key, value): an existing field keeps its place
\* and takes the new value and decoration, a new field goes last.
SetValue(dep, key, v, decor) ==
    IF ContainsKey(dep, key)
    THEN [i \in 1..Len(dep) |->
            IF dep[i].k = key THEN [k |-> key, v |-> v, d |-> decor] ELSE dep[i]]
    ELSE Append(dep, [k |-> key, v |-> v, d |-> decor])

KeysOf(dep) == {dep[i].k : i \in 1..Len(dep)}

(***************************************************************************)
(* git_url_parse::GitUrl::parse(url).ok() and the `name` of the result:    *)
(* the repository's base name, without a trailing ".git".                  *)
(***************************************************************************)
GitUrlParse(url) ==
    CASE url = SubstrateUrl -> SomeStr("substrate")
      [] url = PolkadotUrl -> SomeStr("polkadot")
      [] url = CumulusUrl -> SomeStr("cumulus")
      [] url = BeefyUrl -> SomeStr("grandpa-bridge-gadget")
      [] url = OtherUrl -> SomeStr("parity-common")
      [] url = ForkUrl -> SomeStr("substrate")
      [] url = MirrorUrl -> SomeStr("sub")
      [] OTHER -> NoneStr

(***************************************************************************)
(* update.rs: the request.                                                 *)
(***************************************************************************)
RewriteKinds == {"All", "Substrate", "Polkadot", "Cumulus", "Beefy"}
RefKinds == {"Tag", "Branch", "Rev"}

\* enum Rewrite: the scope and, for a family, the replacement git URL.
Rewrite(t, git) == [t |-> t, git |-> git]
\* enum Key: the target; `source` is the VersionSource of Key::Version.
Key(t, v, source) == [t |-> t, v |-> v, source |-> source]

\* The `git.name` a family scope asks for.
FamilyName(t) ==
    CASE t = "Substrate" -> "substrate"
      [] t = "Polkadot" -> "polkadot"
      [] t = "Cumulus" -> "cumulus"
      [] t = "Beefy" -> "grandpa-bridge-gadget"
      [] OTHER -> ""

\* The field a ref target writes.
RefField(t) ==
    CASE t = "Tag" -> "tag"
      [] t = "Branch" -> "branch"
      [] t = "Rev" -> "rev"
      [] OTHER -> ""

ExpectGitRef(key) == key.t \in RefKinds

\* Mutant: one of the three ref fields is forgotten.
RemoveKeysNoRev(dep) == Remove(Remove(dep, "tag"), "branch")

RemoveKeys(dep) == Remove(Remove(Remove(dep, "tag"), "branch"), "rev")

(***************************************************************************)
(* update.rs: the Version Resolver.  The world outside the run is          *)
(* [crates_io, lock]: what crates.io answers for a package (none: the      *)
(* request fails or the package is unknown) and the body behind the URL or *)
(* file of a lock source (none: it cannot be fetched).  A body is the      *)
(* sequence of its [[package]] tables, [name, version].                    *)
(***************************************************************************)
LockEntry(n, v) == [name |-> n, version |-> v]

\* get_version_from_cargo_lock_file: the first table with the name and a
\* string version.
GetVersionFromCargoLockFile(body, package_name) ==
    LET hits == {i \in 1..Len(body) :
                    body[i].name = package_name /\ body[i].version.some}
    IN  IF hits = {} THEN NoneStr
        ELSE body[CHOOSE i \in hits : \A j \in hits : i <= j].version

\* get_cargo_lock(f, cargo_lock); `f` is what the closure returns when it is
\* called.  fetched counts the calls of the closure.
GetCargoLock(f, cargo_lock) ==
    IF cargo_lock.some
    THEN [ok |-> TRUE, body |-> cargo_lock.v, cargo_lock |-> cargo_lock, fetched |-> 0]
    ELSE IF f.some
         THEN [ok |-> TRUE, body |-> f.v, cargo_lock |-> SomeBody(f.v), fetched |-> 1]
         ELSE [ok |-> FALSE, body |-> <<>>, cargo_lock |-> cargo_lock, fetched |-> 1]

\* get_version_by_source: version is none when it returns Err.
GetVersionBySource(package, source, cargo_lock, world) ==
    IF source = "CratesIO"
    THEN [version |-> world.crates_io[package], cargo_lock |-> cargo_lock, fetched |-> 0]
    ELSE LET got == GetCargoLock(world.lock, cargo_lock)
         IN  [version |-> IF got.ok
                          THEN GetVersionFromCargoLockFile(got.body, package)
                          ELSE NoneStr,
              cargo_lock |-> got.cargo_lock,
              fetched |-> got.fetched]

\* HashMap::insert
MapInsert(m, key, v) ==
    [x \in DOMAIN m \cup {key} |-> IF x = key THEN v ELSE m[x]]

\* get_version: the cache is read and written under `name`, the source is
\* asked for `package`.  resolved lists the packages the source was asked for.
GetVersion(name, package, source, packages_version, cargo_lock, world) ==
    IF name \in DOMAIN packages_version
    THEN [version |-> SomeStr(packages_version[name]),
          packages_version |-> packages_version,
          cargo_lock |-> cargo_lock, resolved |-> <<>>, fetched |-> 0]
    ELSE LET got == GetVersionBySource(package, source, cargo_lock, world)
         IN  [version |-> got.version,
              packages_version |->
                  IF got.version.some
                  THEN MapInsert(packages_version, name, got.version.v)
                  ELSE packages_version,
              cargo_lock |-> got.cargo_lock,
              resolved |-> <<package>>,
              fetched |-> got.fetched]

(***************************************************************************)
(* update.rs: handle_dependency.                                           *)
(***************************************************************************)
\* The effective package name.
PackageOf(name, dep) ==
    IF Get(dep, "package").some THEN Get(dep, "package").v ELSE name

\* Mutant: the family arms lose their guard on `git.name`.
FamilyMatchesAny(rewrite, git_name) == TRUE

\* Mutant: Beefy looks for a repository called "beefy".
FamilyMatchesBeefy(rewrite, git_name) ==
    \/ rewrite.t = "All"
    \/ rewrite.t # "All" /\ git_name = (IF rewrite.t = "Beefy" THEN "beefy"
                                         ELSE FamilyName(rewrite.t))

\* The arms of `match rewrite` that do not return.
FamilyMatches(rewrite, git_name) ==
    \/ rewrite.t = "All"
    \/ rewrite.t # "All" /\ git_name = FamilyName(rewrite.t)

\* The new_git of the arm taken.
NewGit(rewrite) == IF rewrite.t = "All" THEN NoneStr ELSE rewrite.git

\* The rewrite of a matched entry under Key::Tag, Key::Branch or Key::Rev.
PinToRef(dep, key, new_git) ==
    LET d1 == IF new_git.some THEN SetValue(dep, "git", new_git.v, GitDecor) ELSE dep
    IN  SetValue(RemoveKeys(d1), RefField(key.t), key.v, RefDecor)

\* Mutant: the `path` field is left in place.
PinToVersionKeepPath(dep, version) ==
    Remove(RemoveKeys(SetValue(dep, "version", version, RefDecor)), "git")

\* The rewrite of an entry under Key::Version, once the version is known.
PinToVersion(dep, version) ==
    Remove(Remove(RemoveKeys(SetValue(dep, "version", version, RefDecor)), "path"), "git")

\* What handle_dependency leaves when it returns without touching the entry.
Skipped(dep, cargo_lock, packages_version) ==
    [dep |-> dep, cargo_lock |-> cargo_lock, packages_version |-> packages_version,
     updated |-> FALSE, err |-> FALSE, resolved |-> <<>>, fetched |-> 0,
     version |-> NoneStr]

\* Mutant: the excluded packages are not looked at.
IsExcludedNever(excluded_packages, package) == FALSE

\* excluded_packages.get(package).cloned().is_some()
IsExcluded(excluded_packages, package) == package \in excluded_packages

HandleDependency(name, dep, rewrite, key, excluded_packages, cargo_lock, packages_version, world) ==
    LET package == PackageOf(name, dep)
        git == IF Get(dep, "git").some THEN GitUrlParse(Get(dep, "git").v) ELSE NoneStr
    IN  IF IsExcluded(excluded_packages, package)
        THEN Skipped(dep, cargo_lock, packages_version)
        ELSE IF ExpectGitRef(key)
        THEN IF ~git.some \/ ~FamilyMatches(rewrite, git.v)
             THEN Skipped(dep, cargo_lock, packages_version)
             ELSE [dep |-> PinToRef(dep, key, NewGit(rewrite)),
                   cargo_lock |-> cargo_lock, packages_version |-> packages_version,
                   updated |-> TRUE, err |-> FALSE, resolved |-> <<>>, fetched |-> 0,
                   version |-> NoneStr]
        ELSE LET got == GetVersion(name, package, key.source, packages_version,
                                   cargo_lock, world)
             IN  [dep |-> IF got.version.some
                          THEN PinToVersion(dep, got.version.v) ELSE dep,
                  cargo_lock |-> got.cargo_lock,
                  packages_version |-> got.packages_version,
                  updated |-> got.version.some, err |-> ~got.version.some,
                  resolved |-> got.resolved, fetched |-> got.fetched,
                  version |-> got.version]

(***************************************************************************)
(* workspacify.rs: collapse-to-local-path.  A path is the sequence of its  *)
(* components; `packages` maps a package name to the path of its manifest. *)
(***************************************************************************)
\* Path::parent()
Parent(path) == SubSeq(path, 1, Len(path) - 1)

\* Path::display().to_string() / to_string_lossy(): components joined by "/".
RECURSIVE PathString(_)
PathString(path) ==
    IF path = <<>> THEN ""
    ELSE IF Len(path) = 1 THEN path[1]
    ELSE path[1] \o "/" \o PathString(Tail(path))

\* Mutant: the way up from `base` is left out.
DiffPathsDownOnly(path, base) ==
    LET same == {n \in 0..Len(path) :
                    n <= Len(base) /\ SubSeq(path, 1, n) = SubSeq(base, 1, n)}
        n == CHOOSE m \in same : \A o \in same : o <= m
    IN  SubSeq(path, n + 1, Len(path))

\* pathdiff::diff_paths(path, base) of two paths under the same root: the
\* common leading components go, one ".." per component left of `base`,
\* then what is left of `path`.
DiffPaths(path, base) ==
    LET same == {n \in 0..Len(path) :
                    n <= Len(base) /\ SubSeq(path, 1, n) = SubSeq(base, 1, n)}
        n == CHOOSE m \in same : \A o \in same : o <= m
    IN  [i \in 1..(Len(base) - n) |-> ".."] \o SubSeq(path, n + 1, Len(path))

\* The rank of every other key: u32::MAX in the code, here the largest
\* number TLC holds; only its order against the other ranks is used.
OtherKeyRank == 2147483647

\* dep_key_order
DepKeyOrder(dep_key) ==
    CASE dep_key = "package" -> 0
      [] dep_key = "git" -> 10
      [] dep_key = "path" -> 10
      [] dep_key = "version" -> 30
      [] dep_key = "branch" -> 30
      [] dep_key = "tag" -> 30
      [] dep_key = "default-features" -> 40
      [] dep_key = "features" -> 50
      [] dep_key = "optional" -> 60
      [] OTHER -> OtherKeyRank

\* InlineTable::sort_values_by(|k0, _, k1, _| dep_key_order(k0).cmp(..)):
\* a stable sort, so fields of one rank keep their order.
SortValuesByDepKeyOrder(dep) ==
    LET Rank(r) == SelectSeq(dep, LAMBDA f : DepKeyOrder(f.k) = r)
    IN  Rank(0) \o Rank(10) \o Rank(30) \o Rank(40) \o Rank(50) \o Rank(60)
        \o Rank(OtherKeyRank)

\* Mutant: the `git` field is left in place.
CollapseKeepGit(dep, relpath) ==
    SortValuesByDepKeyOrder(
        SetValue(Remove(Remove(Remove(dep, "branch"), "version"), "workspace"),
                 "path", PathString(relpath), DefaultDecor))

\* The rewrite of an internal dependency: lines 175-186 of handle_dep.
Collapse(dep, relpath) ==
    SortValuesByDepKeyOrder(
        SetValue(Remove(Remove(Remove(Remove(dep, "git"), "branch"), "version"),
                        "workspace"),
                 "path", PathString(relpath), DefaultDecor))

\* handle_dep((key, dep, path), packages)
HandleDep(name, dep, path, packages) ==
    LET pkg == IF Get(dep, "package").some THEN Get(dep, "package").v ELSE name
    IN  IF pkg \in DOMAIN packages
        THEN [dep |-> Collapse(dep, DiffPaths(Parent(packages[pkg]), Parent(path))),
              updated |-> TRUE]
        ELSE [dep |-> dep, updated |-> FALSE]

(***************************************************************************)
(* State.                                                                  *)
(*                                                                         *)
(* A manifest on disk is [parses, tables]; a table is [key, entries], its  *)
(* key the top-level key Document::iter yields; an entry is                *)
(* [name, inline, dep], `inline` telling an inline table from any other    *)
(* item.                                                                   *)
(***************************************************************************)
VARIABLES
    \* Update::run
    pc,                 \* where the run is: start, walk, deps, done, failed
    run,                \* "first" or "second" invocation on the same tree
    rewrite, key,       \* the request, from into_parts
    exclude_doc,        \* the file behind --exclude
    world,              \* crates.io and the lock source
    files,              \* the manifests of the tree, in walk order
    orig,               \* the manifests before the first run
    after_first,        \* the manifests after the first run
    file_idx,           \* the manifest the walk is at
    toml_doc,           \* the tables of the manifest being handled
    todo,               \* the <<table, entry>> places still to handle in it
    excluded_packages, packages_version, cargo_lock,
    resolutions,        \* calls of get_version_by_source per package, this run
    lock_fetches,       \* calls of the closure that fetches the lock body, this run
    last,               \* what the latest handle_dependency call did
    written,            \* the manifests fs::write has written, this run
    failures,           \* the <<file, table, entry>> places whose call returned Err, this run
    opts,               \* the command line of the update subcommand
    \* one entry under one policy
    p_policy,           \* none, ref, version, collapse
    p_name, p_in,       \* the entry before
    p_req,              \* the inputs of the policy
    p_out,              \* the result
    \* Workspacify::run
    ws_pc,              \* idle, index, members, rewrite, done, failed
    ws_err,             \* the step that returned Err: index, duplicates, members, rewrite
    ws_disk,            \* path -> the file there
    ws_orig,            \* the files before the run
    ws_walk,            \* the manifests manifest_iter has still to yield
    packages,           \* package name -> manifest path
    duplicates,         \* package name -> the paths that declare it
    ws_todo,            \* the packages the loop of step 3 has still to visit
    ws_log,             \* the paths fs::write has written, in order
    \* Patch::run
    patch_pc,           \* idle, start, read, add, write, done, failed
    patch_req,          \* the command line and the tree behind --crates-to-patch
    patch_walk,         \* the files WalkDir has still to yield
    patch_doc,          \* the [patch] item of the document being edited
    patch_disk,         \* the [patch] item of the manifest on disk
    patch_orig,         \* the manifest before the run
    patch_added,        \* the packages add_patches_for_packages was handed
    \* CheckFeatures::run
    cf_pc,              \* idle, start, walk, done, failed
    cf_req,             \* what --path names
    cf_disk,            \* path -> the file there
    cf_orig,            \* the files before the run
    cf_walk,            \* the files WalkDir has still to yield
    cf_out,             \* the lines println! has written, in order
    cf_errs             \* the manifests whose check_toml returned Err

update_vars == <<pc, run, rewrite, key, exclude_doc, world, files, orig, after_first,
                 file_idx, toml_doc, todo, excluded_packages, packages_version,
                 cargo_lock, resolutions, lock_fetches, last, written, failures, opts>>
policy_vars == <<p_policy, p_name, p_in, p_req, p_out>>
ws_vars == <<ws_pc, ws_err, ws_disk, ws_orig, ws_walk, packages, duplicates, ws_todo, ws_log>>
patch_vars == <<patch_pc, patch_req, patch_walk, patch_doc, patch_disk, patch_orig,
               patch_added>>
cf_vars == <<cf_pc, cf_req, cf_disk, cf_orig, cf_walk, cf_out, cf_errs>>
vars == <<update_vars, policy_vars, ws_vars, patch_vars, cf_vars>>

Entry(name, dep) == [name |-> name, inline |-> TRUE, dep |-> dep]
Table(k, entries) == [key |-> k, entries |-> entries]
Manifest(tables) == [parses |-> TRUE, tables |-> tables]
BadManifest == [parses |-> FALSE, tables |-> <<>>]

NoCall == [op |-> "none"]

(***************************************************************************)
(* update.rs: Update::run and handle_toml_file.                            *)
(***************************************************************************)
\* k.contains("dependencies") for the top-level keys of a manifest.
ContainsDependencies(k) ==
    k \in {"dependencies", "dev-dependencies", "build-dependencies"}

\* The key path of a table of the file: the header `[workspace.dependencies]`
\* is the table `dependencies` inside the top-level item `workspace`, any
\* other header used here is a top-level key.
KeyPath(header) ==
    CASE header = "workspace.dependencies" -> <<"workspace", "dependencies">>
      [] header = "target.x86_64-unknown-linux-gnu.dependencies" ->
            <<"target", "x86_64-unknown-linux-gnu", "dependencies">>
      [] OTHER -> <<header>>

\* Document::iter yields the top-level items: the entries of a table are
\* reached by `.filter(|(k, _)| k.contains("dependencies"))` and `t.iter()`
\* only where the table is the top-level item itself; below a top-level
\* key that passes the filter, a nested table is an item that is no inline
\* table.
ScannedTable(header) ==
    Len(KeyPath(header)) = 1 /\ ContainsDependencies(KeyPath(header)[1])

\* k.contains("diener_exclude")
ContainsDienerExclude(k) == k = "diener_exclude"

\* The name one inline table of the exclusion document excludes.
ExcludedName(entry) ==
    IF Get(entry.dep, "package").some THEN Get(entry.dep, "package").v ELSE entry.name

\* The names the loop over the exclusion document inserts.
ExcludedPackagesOf(doc) ==
    UNION {{ExcludedName(doc[t].entries[e]) :
                e \in {e \in 1..Len(doc[t].entries) : doc[t].entries[e].inline}} :
           t \in {t \in 1..Len(doc) : ContainsDienerExclude(doc[t].key)}}

\* The places the iterator chain of handle_toml_file visits, in order:
\* tables whose key contains "dependencies", inline-table entries in them.
RECURSIVE PlacesFrom(_, _, _)
PlacesFrom(doc, t, e) ==
    IF t > Len(doc) THEN <<>>
    ELSE IF ~ScannedTable(doc[t].key) \/ e > Len(doc[t].entries)
         THEN PlacesFrom(doc, t + 1, 1)
         ELSE (IF doc[t].entries[e].inline THEN <<(<<t, e>>)>> ELSE <<>>)
              \o PlacesFrom(doc, t, e + 1)

EmptyMap == [x \in {} |-> ""]
NoResolutions == [n \in Names |-> 0]

\* Lines 134-189: the caches are created empty, the exclusion document is
\* read; a document that cannot be read or parsed ends the run with Err.
PopulateExcluded ==
    /\ pc = "start"
    /\ packages_version' = EmptyMap
    /\ cargo_lock' = NoneBody
    /\ resolutions' = NoResolutions
    /\ lock_fetches' = 0
    /\ last' = NoCall
    /\ written' = {}
    /\ failures' = {}
    /\ file_idx' = 1
    /\ IF exclude_doc.some /\ ~exclude_doc.parses
       THEN pc' = "failed" /\ excluded_packages' = {}
       ELSE /\ pc' = "walk"
            /\ excluded_packages' =
                 IF exclude_doc.some THEN ExcludedPackagesOf(exclude_doc.tables) ELSE {}
    /\ UNCHANGED <<run, rewrite, key, exclude_doc, world, files, orig, after_first,
                   toml_doc, todo, opts>>
    /\ UNCHANGED <<policy_vars, ws_vars, patch_vars, cf_vars>>

\* handle_toml_file, line 310: read and parse the next manifest of the walk.
\* A manifest that does not parse returns Err, which ends try_for_each.
OpenToml ==
    /\ pc = "walk"
    /\ file_idx <= Len(files)
    /\ IF files[file_idx].parses
       THEN /\ pc' = "deps"
            /\ toml_doc' = files[file_idx].tables
            /\ todo' = PlacesFrom(files[file_idx].tables, 1, 1)
       ELSE /\ pc' = "failed"
            /\ UNCHANGED <<toml_doc, todo>>
    /\ last' = NoCall
    /\ UNCHANGED <<run, rewrite, key, exclude_doc, world, files, orig, after_first,
                   file_idx, excluded_packages, packages_version, cargo_lock,
                   resolutions, lock_fetches, written, failures, opts>>
    /\ UNCHANGED <<policy_vars, ws_vars, patch_vars, cf_vars>>

\* Mutant: the Err of handle_dependency is returned with `?`, which ends
\* handle_toml_file before the write and, through try_for_each, the walk.
HandleDependencyStepPropagate ==
    /\ pc = "deps"
    /\ todo # <<>>
    /\ LET t == Head(todo)[1]
           e == Head(todo)[2]
           entry == toml_doc[t].entries[e]
           r == HandleDependency(entry.name, entry.dep, rewrite, key,
                                 excluded_packages, cargo_lock, packages_version, world)
       IN  /\ toml_doc' = [toml_doc EXCEPT ![t].entries[e].dep = r.dep]
           /\ packages_version' = r.packages_version
           /\ cargo_lock' = r.cargo_lock
           /\ resolutions' =
                [n \in Names |-> resolutions[n]
                                  + Len(SelectSeq(r.resolved, LAMBDA x : x = n))]
           /\ lock_fetches' = lock_fetches + r.fetched
           /\ last' = [op |-> "dep", file |-> file_idx, place |-> Head(todo),
                       name |-> entry.name, package |-> PackageOf(entry.name, entry.dep),
                       before |-> entry.dep, after |-> r.dep, updated |-> r.updated,
                       err |-> r.err, version |-> r.version]
           /\ failures' = IF r.err THEN failures \cup {<<file_idx, t, e>>} ELSE failures
           /\ pc' = IF r.err THEN "failed" ELSE pc
    /\ todo' = Tail(todo)
    /\ UNCHANGED <<run, rewrite, key, exclude_doc, world, files, orig, after_first,
                   file_idx, excluded_packages, written, opts>>
    /\ UNCHANGED <<policy_vars, ws_vars, patch_vars, cf_vars>>

\* handle_toml_file, lines 323-331: one call of handle_dependency on the
\* entry of the document; an Err is logged and dropped.
HandleDependencyStep ==
    /\ pc = "deps"
    /\ todo # <<>>
    /\ LET t == Head(todo)[1]
           e == Head(todo)[2]
           entry == toml_doc[t].entries[e]
           r == HandleDependency(entry.name, entry.dep, rewrite, key,
                                 excluded_packages, cargo_lock, packages_version, world)
       IN  /\ toml_doc' = [toml_doc EXCEPT ![t].entries[e].dep = r.dep]
           /\ packages_version' = r.packages_version
           /\ cargo_lock' = r.cargo_lock
           /\ resolutions' =
                [n \in Names |-> resolutions[n]
                                  + Len(SelectSeq(r.resolved, LAMBDA x : x = n))]
           /\ lock_fetches' = lock_fetches + r.fetched
           /\ last' = [op |-> "dep", file |-> file_idx, place |-> Head(todo),
                       name |-> entry.name, package |-> PackageOf(entry.name, entry.dep),
                       before |-> entry.dep, after |-> r.dep, updated |-> r.updated,
                       err |-> r.err, version |-> r.version]
           /\ failures' = IF r.err THEN failures \cup {<<file_idx, t, e>>} ELSE failures
    /\ todo' = Tail(todo)
    /\ UNCHANGED <<pc, run, rewrite, key, exclude_doc, world, files, orig, after_first,
                   file_idx, excluded_packages, written, opts>>
    /\ UNCHANGED <<policy_vars, ws_vars, patch_vars, cf_vars>>

\* handle_toml_file, lines 334-335: the document is written back.
WriteToml ==
    /\ pc = "deps"
    /\ todo = <<>>
    /\ files' = [files EXCEPT ![file_idx].tables = toml_doc]
    /\ file_idx' = file_idx + 1
    /\ pc' = "walk"
    /\ last' = NoCall
    /\ written' = written \cup {file_idx}
    /\ UNCHANGED <<run, rewrite, key, exclude_doc, world, orig, after_first, toml_doc,
                   todo, excluded_packages, packages_version, cargo_lock, resolutions,
                   lock_fetches, failures, opts>>
    /\ UNCHANGED <<policy_vars, ws_vars, patch_vars, cf_vars>>

\* The walk has no manifest left: try_for_each returns Ok.
FinishWalk ==
    /\ pc = "walk"
    /\ file_idx > Len(files)
    /\ pc' = "done"
    /\ UNCHANGED <<run, rewrite, key, exclude_doc, world, files, orig, after_first, file_idx,
                   toml_doc, todo, excluded_packages, packages_version, cargo_lock,
                   resolutions, lock_fetches, last, written, failures, opts>>
    /\ UNCHANGED <<policy_vars, ws_vars, patch_vars, cf_vars>>

\* main: the same command is run again on the tree the first run left,
\* whether that run returned Ok or Err.
RunAgain ==
    /\ pc \in {"done", "failed"}
    /\ run = "first"
    /\ run' = "second"
    /\ pc' = "start"
    /\ after_first' = files
    /\ UNCHANGED <<rewrite, key, exclude_doc, world, files, orig, file_idx,
                   toml_doc, todo, excluded_packages, packages_version, cargo_lock,
                   resolutions, lock_fetches, last, written, failures, opts>>
    /\ UNCHANGED <<policy_vars, ws_vars, patch_vars, cf_vars>>

NextUpdate ==
    \/ PopulateExcluded
    \/ OpenToml
    \/ HandleDependencyStep
    \/ WriteToml
    \/ FinishWalk
    \/ RunAgain

(***************************************************************************)
(* The runs checked: the requests into_parts lets through, the trees, the  *)
(* exclusion documents and the worlds.                                     *)
(***************************************************************************)
RefKeys == {Key("Tag", "v2.0", ""), Key("Branch", "new", ""), Key("Rev", "abc123", "")}

\* --all takes no --git; a family takes one or none.
RefRewrites ==
    {Rewrite("All", NoneStr)}
    \cup {Rewrite(t, g) : t \in RewriteKinds \ {"All"},
                          g \in {NoneStr, SomeStr(ForkUrl)}}

\* crates.io knows foo at 1.0 and bar at 2.0, or not.
CratesIoWorlds ==
    {[n \in Names |-> IF n \in known
                      THEN SomeStr(IF n = "foo" THEN "1.0" ELSE "2.0")
                      ELSE NoneStr] : known \in SUBSET Names}

LockBodies ==
    { <<LockEntry("foo", SomeStr("1.0")), LockEntry("bar", SomeStr("2.0"))>>,
      <<LockEntry("bar", NoneStr), LockEntry("bar", SomeStr("2.0")),
        LockEntry("bar", SomeStr("1.0"))>>,
      <<>> }

NoWorld == [crates_io |-> [n \in Names |-> NoneStr], lock |-> NoneBody]

\* The requests of the runs: a scope, a target and the world the target's
\* source lives in.  --version implies Rewrite::All.
RunRefRequests ==
    {[rewrite |-> rw, key |-> k, world |-> NoWorld] :
        rw \in {Rewrite("All", NoneStr), Rewrite("Substrate", SomeStr(MirrorUrl)),
                Rewrite("Substrate", SomeStr(ForkUrl)), Rewrite("Polkadot", NoneStr)},
        k \in RefKeys}

RunVersionRequests ==
    {[rewrite |-> Rewrite("All", NoneStr), key |-> Key("Version", "", "CratesIO"),
      world |-> [crates_io |-> c, lock |-> NoneBody]] : c \in CratesIoWorlds}
    \cup
    {[rewrite |-> Rewrite("All", NoneStr), key |-> Key("Version", "", "Url"),
      world |-> [crates_io |-> NoWorld.crates_io, lock |-> l]] :
        l \in {SomeBody(b) : b \in LockBodies} \cup {NoneBody}}
    \cup
    {[rewrite |-> Rewrite("All", NoneStr), key |-> Key("Version", "", "File"),
      world |-> [crates_io |-> NoWorld.crates_io, lock |-> SomeBody(b)]] :
        b \in LockBodies \ {<<>>}}

RunRequests == RunRefRequests \cup RunVersionRequests

NoExcludeDoc == [some |-> FALSE, parses |-> TRUE, tables |-> <<>>]

\* --exclude: none, a file that does not parse, or
\*   [dependencies]
\*   foo = { }
\*   [diener_exclude]
\*   baz = { package = "bar" }
\*   qux = { }
\*   quux = "1.0"
ExcludeDocs ==
    { NoExcludeDoc,
      [some |-> TRUE, parses |-> FALSE, tables |-> <<>>],
      [some |-> TRUE, parses |-> TRUE, tables |->
         << Table("dependencies", <<Entry("foo", <<>>)>>),
            Table("diener_exclude",
                  << Entry("baz", <<Field("package", "bar")>>),
                     Entry("qux", <<>>),
                     [name |-> "quux", inline |-> FALSE, dep |-> <<>>] >>) >>] }

\* The entries of the trees: a key, with or without a `package` override
\* that names another package, sourced from git or from a path.
RunSources ==
    { <<Field("tag", "old"), Field("git", SubstrateUrl), Field("branch", "old"),
        Field("features", "old")>>,
      <<Field("version", "0.1"), Field("path", "../x")>> }

RunEntries ==
    {Entry(n, src) : n \in Names, src \in RunSources}
    \cup {Entry("foo", <<Field("package", "bar")>> \o src) : src \in RunSources}

\* A manifest: one that does not parse, one without dependencies, or one
\* with a [dependencies] table of one entry.
RunManifests ==
    {BadManifest, Manifest(<<Table("package", <<>>)>>)}
    \cup {Manifest(<<Table("dependencies", <<e>>)>>) : e \in RunEntries}

RECURSIVE SeqsUpTo(_, _)
SeqsUpTo(S, n) ==
    IF n = 0 THEN {<<>>}
    ELSE SeqsUpTo(S, n - 1)
         \cup {Append(q, x) : q \in {q \in SeqsUpTo(S, n - 1) : Len(q) = n - 1}, x \in S}

Trees == SeqsUpTo(RunManifests, MaxManifests) \ {<<>>}

\* No command line was kept: the request was drawn as into_parts returns it.
NoOpts == [given |-> FALSE]

WsIdle ==
    /\ ws_pc = "idle"
    /\ ws_err = ""
    /\ ws_disk = <<>>
    /\ ws_orig = <<>>
    /\ ws_walk = {}
    /\ packages = EmptyMap
    /\ duplicates = EmptyMap
    /\ ws_todo = {}
    /\ ws_log = <<>>

PatchIdle ==
    /\ patch_pc = "idle"
    /\ patch_req = <<>>
    /\ patch_walk = <<>>
    /\ patch_doc = <<>>
    /\ patch_disk = <<>>
    /\ patch_orig = <<>>
    /\ patch_added = <<>>

CheckIdle ==
    /\ cf_pc = "idle"
    /\ cf_req = <<>>
    /\ cf_disk = <<>>
    /\ cf_orig = <<>>
    /\ cf_walk = {}
    /\ cf_out = <<>>
    /\ cf_errs = {}

PolicyIdle ==
    /\ p_policy = "idle"
    /\ p_name = ""
    /\ p_in = <<>>
    /\ p_req = <<>>
    /\ p_out = <<>>

InitUpdate ==
    /\ pc = "start"
    /\ run = "first"
    /\ \E req \in RunRequests :
          /\ rewrite = req.rewrite
          /\ key = req.key
          /\ world = req.world
    /\ exclude_doc \in ExcludeDocs
    /\ files \in Trees
    /\ orig = files
    /\ after_first = <<>>
    /\ file_idx = 1
    /\ toml_doc = <<>>
    /\ todo = <<>>
    /\ excluded_packages = {}
    /\ packages_version = EmptyMap
    /\ cargo_lock = NoneBody
    /\ resolutions = NoResolutions
    /\ lock_fetches = 0
    /\ last = NoCall
    /\ written = {}
    /\ failures = {}
    /\ opts = NoOpts
    /\ PolicyIdle
    /\ WsIdle
    /\ PatchIdle
    /\ CheckIdle

Spec == InitUpdate /\ [][NextUpdate]_vars

(***************************************************************************)
(* Runs of `update --version` over manifests of two entries, where the     *)
(* resolution of one entry can fail and that of the other succeed.         *)
(***************************************************************************)
ResolutionEntries ==
    [foo |-> Entry("foo", <<Field("version", "0.1"), Field("path", "../x")>>),
     bar |-> Entry("bar", <<Field("version", "0.1"), Field("git", SubstrateUrl)>>),
     baz |-> Entry("baz", <<Field("package", "bar"), Field("path", "../x")>>)]

\* The keys of one table differ.  One manifest spreads its entries over
\* two tables, one does not parse.
ResolutionManifests ==
    {Manifest(<<Table("dependencies", <<ResolutionEntries[a], ResolutionEntries[b]>>)>>) :
        a \in {"foo", "baz"}, b \in {"bar"}}
    \cup
    {Manifest(<<Table("dependencies", <<ResolutionEntries[b], ResolutionEntries[a]>>)>>) :
        a \in {"foo", "baz"}, b \in {"bar"}}
    \cup
    {Manifest(<<Table("dependencies", <<ResolutionEntries["bar"]>>),
               Table("dev-dependencies", <<ResolutionEntries["foo"]>>)>>),
     BadManifest}

InitResolution ==
    /\ pc = "start"
    /\ run = "first"
    /\ \E req \in RunVersionRequests :
          /\ rewrite = req.rewrite
          /\ key = req.key
          /\ world = req.world
    /\ exclude_doc = NoExcludeDoc
    /\ files \in SeqsUpTo(ResolutionManifests, MaxManifests) \ {<<>>}
    /\ orig = files
    /\ after_first = <<>>
    /\ file_idx = 1
    /\ toml_doc = <<>>
    /\ todo = <<>>
    /\ excluded_packages = {}
    /\ packages_version = EmptyMap
    /\ cargo_lock = NoneBody
    /\ resolutions = NoResolutions
    /\ lock_fetches = 0
    /\ last = NoCall
    /\ written = {}
    /\ failures = {}
    /\ opts = NoOpts
    /\ PolicyIdle
    /\ WsIdle
    /\ PatchIdle
    /\ CheckIdle

SpecResolution == InitResolution /\ [][NextUpdate]_vars

(***************************************************************************)
(* Runs of `update --all --branch new` over manifests whose tables and     *)
(* entries have every shape: dependency tables at the top level and below  *)
(* `workspace` and `target`, other tables, and entries that are inline     *)
(* tables, strings or sub-tables.                                          *)
(***************************************************************************)
TableHeaders ==
    {"dependencies", "dev-dependencies", "build-dependencies", "workspace.dependencies",
     "target.x86_64-unknown-linux-gnu.dependencies", "package", "features"}

\*   foo = { git = "https://github.com/paritytech/substrate", branch = "old" }
\*   foo = "1.0"
\*   [<table>.foo] with git and branch
ShapedEntries ==
    { Entry("foo", <<Field("git", SubstrateUrl), Field("branch", "old")>>),
      [name |-> "foo", inline |-> FALSE, dep |-> <<>>],
      [name |-> "foo", inline |-> FALSE,
       dep |-> <<Field("git", SubstrateUrl), Field("branch", "old")>>] }

\* One table, or [dependencies] with an inline table and one other table.
ShapedManifests ==
    {Manifest(<<Table(h, <<e>>)>>) : h \in TableHeaders, e \in ShapedEntries}
    \cup
    {Manifest(<<Table("dependencies", <<Entry("bar", <<Field("git", PolkadotUrl)>>)>>),
               Table(h, <<e>>)>>) :
        h \in TableHeaders \ {"dependencies"}, e \in ShapedEntries}

InitEligible ==
    /\ pc = "start"
    /\ run = "first"
    /\ rewrite = Rewrite("All", NoneStr)
    /\ key = Key("Branch", "new", "")
    /\ world = NoWorld
    /\ exclude_doc = NoExcludeDoc
    /\ files \in SeqsUpTo(ShapedManifests, MaxManifests) \ {<<>>}
    /\ orig = files
    /\ after_first = <<>>
    /\ file_idx = 1
    /\ toml_doc = <<>>
    /\ todo = <<>>
    /\ excluded_packages = {}
    /\ packages_version = EmptyMap
    /\ cargo_lock = NoneBody
    /\ resolutions = NoResolutions
    /\ lock_fetches = 0
    /\ last = NoCall
    /\ written = {}
    /\ failures = {}
    /\ opts = NoOpts
    /\ PolicyIdle
    /\ WsIdle
    /\ PatchIdle
    /\ CheckIdle

SpecEligible == InitEligible /\ [][NextUpdate]_vars

(***************************************************************************)
(* update.rs: the command line and Update::into_parts.  `opts` holds the   *)
(* flags and options structopt has accepted.                               *)
(***************************************************************************)
\* get_version_source: "latest", a URL, or a path to an existing Cargo.lock;
\* anything else is an Err.
GetVersionSource(version) ==
    CASE version = "https://example.com/Cargo.lock" -> [ok |-> TRUE, source |-> "Url"]
      [] version = "path/to/Cargo.lock" -> [ok |-> TRUE, source |-> "File"]
      [] version = "latest" -> [ok |-> TRUE, source |-> "CratesIO"]
      [] OTHER -> [ok |-> FALSE, source |-> ""]

\* Update::into_parts: ok is FALSE where it bails.
IntoParts(o) ==
    LET key_part ==
            IF o.branch.some THEN [ok |-> TRUE, key |-> Key("Branch", o.branch.v, "")]
            ELSE IF o.rev.some THEN [ok |-> TRUE, key |-> Key("Rev", o.rev.v, "")]
            ELSE IF o.tag.some THEN [ok |-> TRUE, key |-> Key("Tag", o.tag.v, "")]
            ELSE IF o.version.some
                 THEN LET source == GetVersionSource(o.version.v)
                      IN  [ok |-> source.ok, key |-> Key("Version", "", source.source)]
                 ELSE [ok |-> FALSE, key |-> Key("", "", "")]
        rewrite_part ==
            IF o.all \/ o.version.some
            THEN [ok |-> ~o.git.some, rewrite |-> Rewrite("All", NoneStr)]
            ELSE IF o.substrate THEN [ok |-> TRUE, rewrite |-> Rewrite("Substrate", o.git)]
            ELSE IF o.beefy THEN [ok |-> TRUE, rewrite |-> Rewrite("Beefy", o.git)]
            ELSE IF o.polkadot THEN [ok |-> TRUE, rewrite |-> Rewrite("Polkadot", o.git)]
            ELSE IF o.cumulus THEN [ok |-> TRUE, rewrite |-> Rewrite("Cumulus", o.git)]
            ELSE [ok |-> FALSE, rewrite |-> Rewrite("", NoneStr)]
    IN  [ok |-> key_part.ok /\ rewrite_part.ok,
         rewrite |-> rewrite_part.rewrite,
         key |-> key_part.key]

\* Update::run, line 139: into_parts()?; an Err ends the run before the
\* exclusion document or any manifest is read.
IntoPartsStep ==
    /\ pc = "cli"
    /\ LET parts == IntoParts(opts)
       IN  IF parts.ok
           THEN /\ pc' = "start"
                /\ rewrite' = parts.rewrite
                /\ key' = parts.key
           ELSE /\ pc' = "rejected"
                /\ UNCHANGED <<rewrite, key>>
    /\ UNCHANGED <<run, exclude_doc, world, files, orig, after_first, file_idx,
                   toml_doc, todo, excluded_packages, packages_version, cargo_lock,
                   resolutions, lock_fetches, last, written, failures, opts>>
    /\ UNCHANGED <<policy_vars, ws_vars, patch_vars, cf_vars>>

NextCli ==
    \/ IntoPartsStep
    \/ NextUpdate

\* The scope flags given: none, one, or two of them.
ScopeFlags ==
    {{}, {"all"}, {"substrate"}, {"polkadot"}, {"cumulus"}, {"beefy"},
     {"substrate", "polkadot"}}

Opts(flags, git, target, v) ==
    [given |-> TRUE,
     all |-> "all" \in flags, substrate |-> "substrate" \in flags,
     polkadot |-> "polkadot" \in flags, cumulus |-> "cumulus" \in flags,
     beefy |-> "beefy" \in flags,
     git |-> git,
     branch |-> IF target = "branch" THEN SomeStr(v) ELSE NoneStr,
     rev |-> IF target = "rev" THEN SomeStr(v) ELSE NoneStr,
     tag |-> IF target = "tag" THEN SomeStr(v) ELSE NoneStr,
     version |-> IF target = "version" THEN SomeStr(v) ELSE NoneStr]

\* The command lines structopt lets through: --branch, --rev, --tag and
\* --version exclude each other, and --version excludes --git.
CommandLines ==
    {Opts(f, g, t[1], t[2]) :
        f \in ScopeFlags, g \in {NoneStr, SomeStr(ForkUrl)},
        t \in {<<"branch", "diener-branch-2">>, <<"rev", "abc123">>,
               <<"tag", "v2.0">>, <<"none", "">>}}
    \cup
    {Opts(f, NoneStr, "version", v) : f \in ScopeFlags, v \in {"latest", "1.0.0"}}

\* Manifests whose entries come from the repositories the families name,
\* from another repository, and from a path.
GitEntry(name, url) == Entry(name, <<Field("git", url), Field("branch", "master")>>)

CliManifests ==
    {Manifest(<<Table("dependencies",
                      <<GitEntry("foo", SubstrateUrl), GitEntry("bar", PolkadotUrl)>>)>>),
     Manifest(<<Table("dependencies",
                      <<GitEntry("foo", CumulusUrl), GitEntry("bar", OtherUrl)>>)>>),
     Manifest(<<Table("dependencies",
                      <<GitEntry("foo", BeefyUrl),
                        Entry("bar", <<Field("path", "../x")>>)>>)>>)}

InitCli ==
    /\ pc = "cli"
    /\ run = "first"
    /\ opts \in CommandLines
    /\ rewrite = Rewrite("", NoneStr)
    /\ key = Key("", "", "")
    /\ world = [crates_io |-> [n \in Names |-> SomeStr("1.0")], lock |-> NoneBody]
    /\ exclude_doc = NoExcludeDoc
    /\ files \in SeqsUpTo(CliManifests, MaxManifests) \ {<<>>}
    /\ orig = files
    /\ after_first = <<>>
    /\ file_idx = 1
    /\ toml_doc = <<>>
    /\ todo = <<>>
    /\ excluded_packages = {}
    /\ packages_version = EmptyMap
    /\ cargo_lock = NoneBody
    /\ resolutions = NoResolutions
    /\ lock_fetches = 0
    /\ last = NoCall
    /\ written = {}
    /\ failures = {}
    /\ PolicyIdle
    /\ WsIdle
    /\ PatchIdle
    /\ CheckIdle

SpecCli == InitCli /\ [][NextCli]_vars

(***************************************************************************)
(* One entry under one policy: the entry is drawn first, then one of       *)
(* handle_dependency (pin-to-ref, pin-to-version) and handle_dep           *)
(* (collapse-to-local-path) is applied to it with drawn inputs.            *)
(***************************************************************************)
FieldKeys ==
    <<"package", "git", "path", "version", "tag", "branch", "rev", "workspace">>
FieldKeySet ==
    {FieldKeys[i] : i \in 1..Len(FieldKeys)}
    \cup {"features", "default-features", "optional"}

EntryUrls == {SubstrateUrl, PolkadotUrl, CumulusUrl, BeefyUrl, OtherUrl, BadUrl}

ValuesOf(k) ==
    CASE k = "git" -> EntryUrls
      [] k = "package" -> {"bar"}
      [] k = "workspace" -> {"true"}
      [] OTHER -> {"old"}

RECURSIVE Populate(_)
Populate(ks) ==
    IF ks = <<>> THEN {<<>>}
    ELSE {<<Field(Head(ks), v)>> \o rest : v \in ValuesOf(Head(ks)),
                                            rest \in Populate(Tail(ks))}

\* Every set of the keys of FieldKeys, in that order, and every sequence of
\* at most MaxFields different keys, in every order.
KeySeqs ==
    {SelectSeq(FieldKeys, LAMBDA k : k \in S) : S \in SUBSET {FieldKeys[i] : i \in 1..Len(FieldKeys)}}
    \cup {q \in SeqsUpTo(FieldKeySet, MaxFields) :
            \A i, j \in 1..Len(q) : i # j => q[i] # q[j]}

PolicyDeps == UNION {Populate(ks) : ks \in KeySeqs}

ExcludedSets == {{}, {"foo"}, {"bar"}}

\* The manifests of a workspace and the indexes of its packages.
WorkspacePaths ==
    { <<"ws", "Cargo.toml">>, <<"ws", "foo", "Cargo.toml">>,
      <<"ws", "crates", "bar", "Cargo.toml">> }

PackageIndexes ==
    UNION {{f \in [S -> WorkspacePaths] : \A a, b \in S : a # b => f[a] # f[b]} :
           S \in (SUBSET Names) \ {{}}}

UpdateIdle ==
    /\ pc = "idle"
    /\ run = "first"
    /\ rewrite = Rewrite("All", NoneStr)
    /\ key = Key("Tag", "", "")
    /\ world = NoWorld
    /\ exclude_doc = NoExcludeDoc
    /\ files = <<>>
    /\ orig = <<>>
    /\ after_first = <<>>
    /\ file_idx = 1
    /\ toml_doc = <<>>
    /\ todo = <<>>
    /\ excluded_packages = {}
    /\ packages_version = EmptyMap
    /\ cargo_lock = NoneBody
    /\ resolutions = NoResolutions
    /\ lock_fetches = 0
    /\ last = NoCall
    /\ written = {}
    /\ failures = {}
    /\ opts = NoOpts

InitPolicy ==
    /\ UpdateIdle
    /\ WsIdle
    /\ PatchIdle
    /\ CheckIdle
    /\ p_policy = "none"
    /\ p_name \in Names
    /\ p_in \in PolicyDeps
    /\ p_req = <<>>
    /\ p_out = <<>>

\* handle_dependency under Key::Tag, Key::Branch or Key::Rev.
ApplyPinToRef ==
    /\ p_policy = "none"
    /\ \E rw \in RefRewrites, k \in RefKeys, ex \in ExcludedSets :
          /\ p_req' = [rewrite |-> rw, key |-> k, excluded_packages |-> ex]
          /\ p_out' = HandleDependency(p_name, p_in, rw, k, ex, NoneBody, EmptyMap,
                                       NoWorld)
    /\ p_policy' = "ref"
    /\ UNCHANGED <<p_name, p_in>>
    /\ UNCHANGED <<update_vars, ws_vars, patch_vars, cf_vars>>

\* handle_dependency under Key::Version, with the cache empty or holding a
\* version under the entry's key.
ApplyPinToVersion ==
    /\ p_policy = "none"
    /\ \E req \in RunVersionRequests, ex \in ExcludedSets,
          pv \in {EmptyMap, [n \in {p_name} |-> "9.9"]} :
          /\ p_req' = [rewrite |-> req.rewrite, key |-> req.key, world |-> req.world,
                       excluded_packages |-> ex, packages_version |-> pv]
          /\ p_out' = HandleDependency(p_name, p_in, req.rewrite, req.key, ex,
                                       NoneBody, pv, req.world)
    /\ p_policy' = "version"
    /\ UNCHANGED <<p_name, p_in>>
    /\ UNCHANGED <<update_vars, ws_vars, patch_vars, cf_vars>>

\* handle_dep on an entry of the manifest at `path`.
ApplyCollapse ==
    /\ p_policy = "none"
    /\ \E index \in PackageIndexes :
         \E path \in {index[n] : n \in DOMAIN index} :
          /\ p_req' = [packages |-> index, path |-> path]
          /\ p_out' = HandleDep(p_name, p_in, path, index)
    /\ p_policy' = "collapse"
    /\ UNCHANGED <<p_name, p_in>>
    /\ UNCHANGED <<update_vars, ws_vars, patch_vars, cf_vars>>

NextPolicy ==
    \/ ApplyPinToRef
    \/ ApplyPinToVersion
    \/ ApplyCollapse

SpecPolicy == InitPolicy /\ [][NextPolicy]_vars

(***************************************************************************)
(* workspacify.rs: Workspacify::run.                                       *)
(*                                                                         *)
(* The file behind a path is [exists, writable, parses, name, workspace,   *)
(* tables]: `name` is package.name where it is a string, `workspace` the   *)
(* top-level `workspace` item, [kind, members], of kind none, table or     *)
(* value (any item that is not a table), `tables` the other top-level      *)
(* tables.  A file that is not writable makes fs::write return Err.        *)
(***************************************************************************)
\* --path
Workspace == <<"ws">>

NoFile ==
    [exists |-> FALSE, writable |-> TRUE, parses |-> TRUE, name |-> NoneStr,
     workspace |-> [kind |-> "none", members |-> <<>>], tables |-> <<>>]

\* The file OpenOptions::create makes: empty.
EmptyFile == [NoFile EXCEPT !.exists = TRUE]

\* filter_entry of manifest_iter: the entry is called "target" or its name
\* starts with '.'.
Pruned(file_name) == file_name \in {"target", ".git"}

\* manifest_iter: the files called Cargo.toml under the workspace, no
\* component from the workspace directory down being pruned.
ManifestIter(workspace, disk) ==
    {p \in DOMAIN disk :
        /\ disk[p].exists
        /\ Len(p) > Len(workspace)
        /\ SubSeq(p, 1, Len(workspace)) = workspace
        /\ p[Len(p)] = "Cargo.toml"
        /\ \A i \in Len(workspace)..Len(p) : ~Pruned(p[i])}

\* read_toml: Err where the file cannot be opened or does not parse; with
\* `create` the file is opened for writing too and made if it is missing.
ReadToml(file, create) ==
    IF ~file.exists
    THEN (IF create THEN [ok |-> TRUE, file |-> EmptyFile]
          ELSE [ok |-> FALSE, file |-> file])
    ELSE [ok |-> file.parses /\ (create => file.writable), file |-> file]

\* Mutant: a name that is already in the map is not recorded as a duplicate.
InsertPackageNoDuplicates(pk, dup, name, manifest) ==
    [packages |-> MapInsert(pk, name, manifest), duplicates |-> dup]

\* Lines 43-48: packages.insert and, where a manifest was already there,
\* the entry of `duplicates`.
InsertPackage(pk, dup, name, manifest) ==
    IF name \in DOMAIN pk
    THEN [packages |-> MapInsert(pk, name, manifest),
          duplicates |->
              MapInsert(dup, name,
                        Append(IF name \in DOMAIN dup THEN dup[name] ELSE <<pk[name]>>,
                               manifest))]
    ELSE [packages |-> MapInsert(pk, name, manifest), duplicates |-> dup]

\* The order of the bytes of the path components that occur.
ComponentRank(c) ==
    CASE c = ".git" -> 0
      [] c = "Cargo.toml" -> 1
      [] c = "bar" -> 2
      [] c = "crates" -> 3
      [] c = "foo" -> 4
      [] c = "sub" -> 5
      [] c = "target" -> 6
      [] c = "ws" -> 7

\* Ord of PathBuf: component by component, a prefix first.
RECURSIVE PathLess(_, _)
PathLess(a, b) ==
    IF a = <<>> THEN b # <<>>
    ELSE IF b = <<>> THEN FALSE
    ELSE IF a[1] = b[1] THEN PathLess(Tail(a), Tail(b))
    ELSE ComponentRank(a[1]) < ComponentRank(b[1])

\* Mutant: the paths are left in some order of the map.
RECURSIVE SortUnstableReversed(_)
SortUnstableReversed(S) ==
    IF S = {} THEN <<>>
    ELSE LET max == CHOOSE x \in S : \A y \in S \ {x} : PathLess(y, x)
         IN  <<max>> \o SortUnstableReversed(S \ {max})

\* members.sort_unstable() of the values of `packages`.
RECURSIVE SortUnstable(_)
SortUnstable(S) ==
    IF S = {} THEN <<>>
    ELSE LET min == CHOOSE x \in S : \A y \in S \ {x} : PathLess(x, y)
         IN  <<min>> \o SortUnstable(S \ {min})

\* path.strip_prefix(workspace)
StripPrefix(path, prefix) == SubSeq(path, Len(prefix) + 1, Len(path))

\* Lines 101-122: the members array.
Members(workspace, pk) ==
    LET sorted == SortUnstable({pk[n] : n \in DOMAIN pk})
    IN  [i \in 1..Len(sorted) |->
            PathString(StripPrefix(Parent(sorted[i]), workspace))]

\* Mutant: only the first dependency table of the manifest is handled.
HandleDepsFirstTable(tables, path, pk) ==
    [t \in 1..Len(tables) |->
        IF t = 1 /\ ScannedTable(tables[t].key)
        THEN [tables[t] EXCEPT !.entries =
                 [e \in 1..Len(tables[t].entries) |->
                     IF tables[t].entries[e].inline
                     THEN [tables[t].entries[e] EXCEPT !.dep =
                              HandleDep(tables[t].entries[e].name,
                                        tables[t].entries[e].dep, path, pk).dep]
                     ELSE tables[t].entries[e]]]
        ELSE tables[t]]

\* rewrite_manifest, lines 137-142: handle_dep on every inline table of
\* every table whose key contains "dependencies".
HandleDeps(tables, path, pk) ==
    [t \in 1..Len(tables) |->
        IF ScannedTable(tables[t].key)
        THEN [tables[t] EXCEPT !.entries =
                 [e \in 1..Len(tables[t].entries) |->
                     IF tables[t].entries[e].inline
                     THEN [tables[t].entries[e] EXCEPT !.dep =
                              HandleDep(tables[t].entries[e].name,
                                        tables[t].entries[e].dep, path, pk).dep]
                     ELSE tables[t].entries[e]]]
        ELSE tables[t]]

\* Lines 41-50, one manifest of the walk: package_name, then the insert.
\* A manifest that cannot be read or parsed ends the run with Err.
IndexManifest ==
    /\ ws_pc = "index"
    /\ ws_walk # {}
    /\ \E manifest \in ws_walk :
          LET read == ReadToml(ws_disk[manifest], FALSE)
              name == read.file.name
          IN  /\ ws_walk' = ws_walk \ {manifest}
              /\ IF ~read.ok
                 THEN /\ ws_pc' = "failed"
                      /\ ws_err' = "index"
                      /\ UNCHANGED <<packages, duplicates>>
                 ELSE /\ UNCHANGED <<ws_pc, ws_err>>
                      /\ IF name.some
                         THEN LET ins == InsertPackage(packages, duplicates, name.v,
                                                       manifest)
                              IN  /\ packages' = ins.packages
                                  /\ duplicates' = ins.duplicates
                         ELSE UNCHANGED <<packages, duplicates>>
    /\ UNCHANGED <<ws_disk, ws_orig, ws_todo, ws_log>>
    /\ UNCHANGED <<update_vars, policy_vars, patch_vars, cf_vars>>

\* Mutant: the members list is skipped and the manifests are rewritten.
CheckDuplicatesThenRewrite ==
    /\ ws_pc = "index"
    /\ ws_walk = {}
    /\ IF DOMAIN duplicates # {}
       THEN ws_pc' = "failed" /\ ws_err' = "duplicates" /\ UNCHANGED ws_todo
       ELSE ws_pc' = "rewrite" /\ ws_todo' = DOMAIN packages /\ UNCHANGED ws_err
    /\ UNCHANGED <<ws_disk, ws_orig, ws_walk, packages, duplicates, ws_log>>
    /\ UNCHANGED <<update_vars, policy_vars, patch_vars, cf_vars>>

\* Lines 51-53: the walk is over; bail if `duplicates` is not empty.
CheckDuplicates ==
    /\ ws_pc = "index"
    /\ ws_walk = {}
    /\ IF DOMAIN duplicates # {}
       THEN ws_pc' = "failed" /\ ws_err' = "duplicates"
       ELSE ws_pc' = "members" /\ UNCHANGED ws_err
    /\ UNCHANGED <<ws_disk, ws_orig, ws_walk, packages, duplicates, ws_todo, ws_log>>
    /\ UNCHANGED <<update_vars, policy_vars, patch_vars, cf_vars>>

\* update_workspace_members: the root manifest is read (and made if it is
\* missing), `workspace` must be a table or absent, `members` is set and
\* the manifest is written.
UpdateWorkspaceMembers ==
    /\ ws_pc = "members"
    /\ LET manifest == Workspace \o <<"Cargo.toml">>
           read == ReadToml(ws_disk[manifest], TRUE)
           toml == read.file
       IN  IF ~read.ok \/ toml.workspace.kind = "value"
           THEN /\ ws_pc' = "failed"
                /\ ws_err' = "members"
                /\ ws_disk' = [ws_disk EXCEPT ![manifest] = toml]
                /\ UNCHANGED <<ws_todo, ws_log>>
           ELSE /\ ws_pc' = "rewrite"
                /\ ws_disk' = [ws_disk EXCEPT ![manifest] =
                                 [toml EXCEPT !.workspace =
                                     [kind |-> "table",
                                      members |-> Members(Workspace, packages)]]]
                /\ ws_todo' = DOMAIN packages
                /\ ws_log' = Append(ws_log, manifest)
                /\ UNCHANGED ws_err
    /\ UNCHANGED <<ws_orig, ws_walk, packages, duplicates>>
    /\ UNCHANGED <<update_vars, policy_vars, patch_vars, cf_vars>>

\* Lines 61-69, one package of the map, in the order the map yields:
\* rewrite_manifest reads the manifest, handles its dependencies and
\* writes it; an Err ends the run.
RewriteManifest ==
    /\ ws_pc = "rewrite"
    /\ ws_todo # {}
    /\ \E name \in ws_todo :
          LET path == packages[name]
              read == ReadToml(ws_disk[path], FALSE)
              toml == [read.file EXCEPT !.tables = HandleDeps(@, path, packages)]
          IN  /\ ws_todo' = ws_todo \ {name}
              /\ IF read.ok /\ read.file.writable
                 THEN /\ ws_disk' = [ws_disk EXCEPT ![path] = toml]
                      /\ ws_log' = Append(ws_log, path)
                      /\ UNCHANGED <<ws_pc, ws_err>>
                 ELSE /\ ws_pc' = "failed"
                      /\ ws_err' = "rewrite"
                      /\ UNCHANGED <<ws_disk, ws_log>>
    /\ UNCHANGED <<ws_orig, ws_walk, packages, duplicates>>
    /\ UNCHANGED <<update_vars, policy_vars, patch_vars, cf_vars>>

\* Line 71: the loop is over, Ok(()).
FinishRewrite ==
    /\ ws_pc = "rewrite"
    /\ ws_todo = {}
    /\ ws_pc' = "done"
    /\ UNCHANGED <<ws_err, ws_disk, ws_orig, ws_walk, packages, duplicates, ws_todo,
                   ws_log>>
    /\ UNCHANGED <<update_vars, policy_vars, patch_vars, cf_vars>>

NextWorkspacify ==
    \/ IndexManifest
    \/ CheckDuplicates
    \/ UpdateWorkspaceMembers
    \/ RewriteManifest
    \/ FinishRewrite

(***************************************************************************)
(* The workspaces checked.                                                 *)
(***************************************************************************)
RootManifest == Workspace \o <<"Cargo.toml">>

\* The directories crates can live in, the first MaxCrates of them in use.
CrateDirs == << <<"foo">>, <<"crates", "bar">>, <<"foo", "sub">>, <<"crates", "foo">> >>

CrateManifests ==
    {Workspace \o CrateDirs[i] \o <<"Cargo.toml">> :
        i \in 1..(IF MaxCrates < Len(CrateDirs) THEN MaxCrates ELSE Len(CrateDirs))}

\* A manifest of the build directory, which the walk must not see.
BuildManifest == Workspace \o <<"target", "foo", "Cargo.toml">>

\* [dependencies]
\* foo = { version = "1.0" }
\* ext = { version = "1.0" }
\* bar = "1.0"
\* [dev-dependencies]
\* baz = { package = "bar", git = "...", branch = "old" }
WsTables ==
    << Table("dependencies",
             << Entry("foo", <<Field("version", "1.0")>>),
                Entry("ext", <<Field("version", "1.0")>>),
                [name |-> "bar", inline |-> FALSE, dep |-> <<>>] >>),
       Table("dev-dependencies",
             << Entry("baz", <<Field("package", "bar"), Field("git", SubstrateUrl),
                               Field("branch", "old")>>) >>) >>

WsFile(name, workspace, tables, writable) ==
    [exists |-> TRUE, writable |-> writable, parses |-> TRUE, name |-> name,
     workspace |-> workspace, tables |-> tables]

NoWorkspace == [kind |-> "none", members |-> <<>>]
OldWorkspace == [kind |-> "table", members |-> <<"gone", "foo">>]

\* The manifest of a crate: missing, not TOML, or with or without a package
\* name and with or without dependencies; one of them read-only.
CrateFiles ==
    {NoFile, [EmptyFile EXCEPT !.parses = FALSE]}
    \cup {WsFile(n, NoWorkspace, t, TRUE) :
            n \in {NoneStr, SomeStr("foo"), SomeStr("bar")}, t \in {<<>>, WsTables}}
    \cup {WsFile(n, NoWorkspace, WsTables, FALSE) : n \in {SomeStr("foo"), SomeStr("bar")}}

\* The root manifest: missing, virtual with or without a `workspace` table,
\* with a `workspace` that is no table, a package of its own, or read-only.
RootFiles ==
    {NoFile,
     WsFile(NoneStr, NoWorkspace, <<>>, TRUE),
     WsFile(NoneStr, OldWorkspace, <<>>, TRUE),
     WsFile(NoneStr, [kind |-> "value", members |-> <<>>], <<>>, TRUE),
     WsFile(SomeStr("root"), OldWorkspace, WsTables, TRUE),
     WsFile(NoneStr, OldWorkspace, <<>>, FALSE)}

InitWorkspacify ==
    /\ UpdateIdle
    /\ PolicyIdle
    /\ PatchIdle
    /\ CheckIdle
    /\ ws_pc = "index"
    /\ ws_err = ""
    /\ \E root \in RootFiles, crates \in [CrateManifests -> CrateFiles] :
          ws_disk = [p \in CrateManifests \cup {RootManifest, BuildManifest} |->
                        IF p = RootManifest THEN root
                        ELSE IF p = BuildManifest
                             THEN WsFile(SomeStr("foo"), NoWorkspace, <<>>, TRUE)
                             ELSE crates[p]]
    /\ ws_orig = ws_disk
    /\ ws_walk = ManifestIter(Workspace, ws_disk)
    /\ packages = EmptyMap
    /\ duplicates = EmptyMap
    /\ ws_todo = {}
    /\ ws_log = <<>>

SpecWorkspacify == InitWorkspacify /\ [][NextWorkspacify]_vars

(***************************************************************************)
(* patch.rs: Patch::run.                                                   *)
(*                                                                         *)
(* The manifest to patch is [parses, patch]; `patch` is the top-level      *)
(* `patch` item, [kind, targets], of kind none, table or value (any item   *)
(* that is not a table); `targets` maps a patch target to its item,        *)
(* [kind, entries], a table of entries or a value.  A path is the sequence *)
(* of its components, the root directory being the component "".          *)
(***************************************************************************)
\* PatchTarget::as_string, the key of the table under [patch].
PatchTargetAsString(patch_target) ==
    IF patch_target.kind = "Crates" THEN "crates-io" ELSE patch_target.v

\* Patch::patch_target: ok is FALSE where it returns Err.
PatchTargetOf(o) ==
    IF o.target.some THEN [ok |-> TRUE, kind |-> "Custom", v |-> o.target.v]
    ELSE IF o.substrate THEN [ok |-> TRUE, kind |-> "Git", v |-> SubstrateUrl]
    ELSE IF o.polkadot THEN [ok |-> TRUE, kind |-> "Git", v |-> PolkadotUrl]
    ELSE IF o.cumulus THEN [ok |-> TRUE, kind |-> "Git", v |-> CumulusUrl]
    ELSE IF o.beefy
         THEN [ok |-> TRUE, kind |-> "Git",
               v |-> "https://github.com/paritytech/parity-bridges-gadget"]
    ELSE IF o.crates THEN [ok |-> TRUE, kind |-> "Crates", v |-> ""]
    ELSE [ok |-> FALSE, kind |-> "", v |-> ""]

\* PointTo::from_cli
PointToFromCli(point_to_git, point_to_git_branch, point_to_git_commit) ==
    IF point_to_git.some
    THEN IF point_to_git_branch.some
         THEN [ok |-> TRUE, kind |-> "GitBranch", repository |-> point_to_git.v,
               ref |-> point_to_git_branch.v]
         ELSE IF point_to_git_commit.some
              THEN [ok |-> TRUE, kind |-> "GitCommit", repository |-> point_to_git.v,
                    ref |-> point_to_git_commit.v]
              ELSE [ok |-> FALSE, kind |-> "", repository |-> "", ref |-> ""]
    ELSE [ok |-> TRUE, kind |-> "Path", repository |-> "", ref |-> ""]

\* path_segment.starts_with('.') for the components that occur.
StartsWithDot(path_segment) == path_segment \in {".", "..", ".git"}

\* The closure of workspace_packages on one file of the walk, `rel` below
\* `workspace`: the PackageInfo, or none where the file is skipped.
WorkspacePackage(workspace, rel, file) ==
    LET path == workspace \o rel
        cargo_toml_dir == Parent(path)
    IN  IF rel[Len(rel)] # "Cargo.toml" THEN [some |-> FALSE]
        ELSE IF \E i \in 1..Len(cargo_toml_dir) : StartsWithDot(cargo_toml_dir[i])
             THEN [some |-> FALSE]
        ELSE IF ~file.parses \/ ~file.name.some THEN [some |-> FALSE]
        ELSE [some |-> TRUE, name |-> file.name.v, cargo_toml_dir |-> cargo_toml_dir]

\* decorated(v, " ", " ")
PatchDecor == <<" ", " ">>

\* Mutant: the git modes write the repository only.
SetPatchGitOnly(patch, pkg, point_to) ==
    CASE point_to.kind = "Path" ->
            SetValue(patch, "path", PathString(pkg.cargo_toml_dir), PatchDecor)
      [] OTHER -> SetValue(patch, "git", point_to.repository, PatchDecor)

\* Lines 352-365: the fields the mode writes into the inline table.
SetPatch(patch, pkg, point_to) ==
    CASE point_to.kind = "Path" ->
            SetValue(patch, "path", PathString(pkg.cargo_toml_dir), PatchDecor)
      [] point_to.kind = "GitBranch" ->
            SetValue(SetValue(patch, "git", point_to.repository, PatchDecor),
                     "branch", point_to.ref, PatchDecor)
      [] point_to.kind = "GitCommit" ->
            SetValue(SetValue(patch, "git", point_to.repository, PatchDecor),
                     "rev", point_to.ref, PatchDecor)

\* The place of the key in the table, 0 where it is missing.
IndexOfEntry(entries, name) ==
    IF \E i \in 1..Len(entries) : entries[i].name = name
    THEN CHOOSE i \in 1..Len(entries) : entries[i].name = name
    ELSE 0

\* Lines 343-365 on one package: the entry is made as an empty inline table
\* if it is missing; ok is FALSE where it is no inline table.
AddPatchForPackage(entries, pkg, point_to) ==
    LET with == IF IndexOfEntry(entries, pkg.name) = 0
                THEN Append(entries, Entry(pkg.name, <<>>))
                ELSE entries
        i == IndexOfEntry(with, pkg.name)
    IN  IF ~with[i].inline
        THEN [ok |-> FALSE, entries |-> with]
        ELSE [ok |-> TRUE,
              entries |-> [with EXCEPT ![i].dep = SetPatch(@, pkg, point_to)]]

NoPatchItem == [kind |-> "none", targets |-> EmptyMap]

\* Lines 156-179: the patch target and the mode are taken from the command
\* line; an Err of either ends the run.
PatchStart ==
    /\ patch_pc = "start"
    /\ IF PatchTargetOf(patch_req.opts).ok
          /\ PointToFromCli(patch_req.opts.point_to_git,
                            patch_req.opts.point_to_git_branch,
                            patch_req.opts.point_to_git_commit).ok
       THEN patch_pc' = "read"
       ELSE patch_pc' = "failed"
    /\ UNCHANGED <<patch_req, patch_walk, patch_doc, patch_disk, patch_orig, patch_added>>
    /\ UNCHANGED <<update_vars, policy_vars, ws_vars, cf_vars>>

\* add_patches_for_packages, lines 315-338: the manifest is read and
\* parsed, and the [patch] table and the table of the target are made if
\* they are missing; an item that is no table is an Err.
ReadCargoToml ==
    /\ patch_pc = "read"
    /\ LET target == PatchTargetAsString(PatchTargetOf(patch_req.opts))
           patch == patch_disk.patch
           targets == IF patch.kind = "table" THEN patch.targets ELSE EmptyMap
       IN  IF \/ ~patch_disk.parses
              \/ patch.kind = "value"
              \/ (target \in DOMAIN targets /\ targets[target].kind = "value")
           THEN /\ patch_pc' = "failed"
                /\ UNCHANGED patch_doc
           ELSE /\ patch_pc' = "add"
                /\ patch_doc' =
                     [patch_disk EXCEPT !.patch =
                        [kind |-> "table",
                         targets |->
                            IF target \in DOMAIN targets THEN targets
                            ELSE MapInsert(targets, target,
                                           [kind |-> "table", entries |-> <<>>])]]
    /\ UNCHANGED <<patch_req, patch_walk, patch_disk, patch_orig, patch_added>>
    /\ UNCHANGED <<update_vars, policy_vars, ws_vars, cf_vars>>

\* Lines 340-367, one file of the walk of workspace_packages: a file the
\* closure skips adds nothing; for a package the patch is added, or the
\* run ends with Err where the entry is no inline table.
AddPatch ==
    /\ patch_pc = "add"
    /\ patch_walk # {}
    /\ \E rel \in patch_walk :
          LET pkg == WorkspacePackage(patch_req.crates_to_patch, rel, patch_req.tree[rel])
              target == PatchTargetAsString(PatchTargetOf(patch_req.opts))
              point_to == PointToFromCli(patch_req.opts.point_to_git,
                                         patch_req.opts.point_to_git_branch,
                                         patch_req.opts.point_to_git_commit)
              added == AddPatchForPackage(patch_doc.patch.targets[target].entries,
                                          pkg, point_to)
          IN  /\ patch_walk' = patch_walk \ {rel}
              /\ IF ~pkg.some
                 THEN UNCHANGED <<patch_pc, patch_doc, patch_added>>
                 ELSE /\ patch_added' = Append(patch_added, pkg)
                      /\ patch_doc' =
                           [patch_doc EXCEPT !.patch.targets[target].entries =
                               added.entries]
                      /\ patch_pc' = IF added.ok THEN patch_pc ELSE "failed"
    /\ UNCHANGED <<patch_req, patch_disk, patch_orig>>
    /\ UNCHANGED <<update_vars, policy_vars, ws_vars, cf_vars>>

\* Lines 369-370: the walk is over and the document is written.
WritePatched ==
    /\ patch_pc = "add"
    /\ patch_walk = {}
    /\ patch_disk' = patch_doc
    /\ patch_pc' = "done"
    /\ UNCHANGED <<patch_req, patch_walk, patch_doc, patch_orig, patch_added>>
    /\ UNCHANGED <<update_vars, policy_vars, ws_vars, cf_vars>>

NextPatch ==
    \/ PatchStart
    \/ ReadCargoToml
    \/ AddPatch
    \/ WritePatched

(***************************************************************************)
(* The patch runs checked.                                                 *)
(***************************************************************************)
PatchOpts(target, flag, git, branch, commit) ==
    [target |-> target,
     substrate |-> flag = "substrate", polkadot |-> flag = "polkadot",
     cumulus |-> flag = "cumulus", beefy |-> flag = "beefy", crates |-> flag = "crates",
     point_to_git |-> git, point_to_git_branch |-> branch,
     point_to_git_commit |-> commit]

\* A target flag, --target, or none; a path, a branch or a commit of a
\* repository, or --point-to-git alone.
PatchCommandLines ==
    {PatchOpts(t[1], t[2], m[1], m[2], m[3]) :
        t \in {<<NoneStr, "substrate">>, <<NoneStr, "crates">>,
               <<SomeStr("my-registry"), "">>, <<NoneStr, "">>},
        m \in {<<NoneStr, NoneStr, NoneStr>>,
               <<SomeStr(ForkUrl), SomeStr("dev"), NoneStr>>,
               <<SomeStr(ForkUrl), NoneStr, SomeStr("abc123")>>,
               <<SomeStr(ForkUrl), NoneStr, NoneStr>>}}

\* --crates-to-patch as documented (../path/to/substrate/checkout), below
\* the working directory, absolute, and the working directory itself.
CratesToPatch ==
    { <<"..", "path", "to", "substrate", "checkout">>,
      <<"substrate">>,
      <<"", "src", "substrate">>,
      <<".">> }

CrateToml(name) == [parses |-> TRUE, name |-> name]

\* The files below --crates-to-patch: a crate foo, beside it a lock file, a
\* manifest that is a crate bar, has no package name or is not TOML, a
\* manifest in a hidden directory, and a second crate foo in the build
\* directory.
PatchTrees ==
    {[rel \in {<<"frame", "Cargo.toml">>, <<"frame", "Cargo.lock">>} \cup S |->
        CASE rel = <<"frame", "Cargo.toml">> -> CrateToml(SomeStr("foo"))
          [] rel = <<"frame", "Cargo.lock">> -> CrateToml(SomeStr("lock"))
          [] rel = <<"client", "Cargo.toml">> -> client
          [] rel = <<".git", "x", "Cargo.toml">> -> CrateToml(SomeStr("hid"))
          [] rel = <<"target", "package", "Cargo.toml">> -> CrateToml(SomeStr("foo"))] :
        S \in SUBSET {<<"client", "Cargo.toml">>, <<".git", "x", "Cargo.toml">>,
                      <<"target", "package", "Cargo.toml">>},
        client \in {CrateToml(SomeStr("bar")), CrateToml(NoneStr),
                    [parses |-> FALSE, name |-> NoneStr]}}

PatchTable(targets) == [kind |-> "table", targets |-> targets]
TargetTable(entries) == [kind |-> "table", entries |-> entries]

\* The manifest to patch: without [patch], with an entry for foo under the
\* target that has other fields or is no inline table, with a `patch` or a
\* target that is no table, or not TOML.
PatchManifests(target) ==
    {[parses |-> TRUE, patch |-> NoPatchItem],
     [parses |-> TRUE, patch |->
        PatchTable(MapInsert(EmptyMap, target, TargetTable(
            << Entry("other", <<Field("path", "old")>>),
               Entry("foo", <<Field("git", OtherUrl), Field("rev", "old"),
                              Field("path", "old")>>) >>)))],
     [parses |-> TRUE, patch |->
        PatchTable(MapInsert(EmptyMap, target, TargetTable(
            << [name |-> "foo", inline |-> FALSE, dep |-> <<>>] >>)))],
     [parses |-> TRUE, patch |->
        PatchTable(MapInsert(EmptyMap, target, [kind |-> "value", entries |-> <<>>]))],
     [parses |-> TRUE, patch |-> [kind |-> "value", targets |-> EmptyMap]],
     [parses |-> FALSE, patch |-> NoPatchItem]}

InitPatch ==
    /\ UpdateIdle
    /\ PolicyIdle
    /\ WsIdle
    /\ CheckIdle
    /\ patch_pc = "start"
    /\ \E o \in PatchCommandLines, c \in CratesToPatch, tree \in PatchTrees :
          /\ patch_req = [opts |-> o, crates_to_patch |-> c, tree |-> tree]
          /\ patch_walk = DOMAIN tree
          /\ patch_disk \in PatchManifests(PatchTargetAsString(PatchTargetOf(o)))
    /\ patch_orig = patch_disk
    /\ patch_doc = <<>>
    /\ patch_added = <<>>

SpecPatch == InitPatch /\ [][NextPatch]_vars

(***************************************************************************)
(* check_features.rs: CheckFeatures::run.                                  *)
(*                                                                         *)
(* A manifest is [parses, dependencies, features], the two items           *)
(* Document::get yields.  An item is [kind, ...], kind being "none" for a  *)
(* missing key, "value" for an item that is no table, "table" for a table. *)
(* An entry of [dependencies] is [name, kind, fields]: kind "inline" for   *)
(* `foo = { .. }`, "str" for `foo = "1.0"`, "table" for the sub-table      *)
(* `[dependencies.foo]`, "dotted" for `foo.version = "1.0"` lines.  A      *)
(* field is [k, v] and a value [t, v], `t` the TOML type.  A feature       *)
(* string is the sequence of its tokens, "/" being one of them.            *)
(***************************************************************************)
CfValue(t, v) == [t |-> t, v |-> v]
CfField(k, v) == [k |-> k, v |-> v]
CfEntry(name, kind, fields) == [name |-> name, kind |-> kind, fields |-> fields]
NoItem == [kind |-> "none", entries |-> <<>>]
ValueItem == [kind |-> "value", entries |-> <<>>]
TableItem(entries) == [kind |-> "table", entries |-> entries]

\* Value::as_bool
AsBool(value) ==
    IF value.t = "bool" THEN [some |-> TRUE, v |-> value.v = "true"]
    ELSE [some |-> FALSE, v |-> FALSE]

\* Table::get_values: the values of the table with their key paths.  An
\* inline table is one value, a dotted table gives one value per field, a
\* sub-table gives none.
RECURSIVE GetValues(_)
GetValues(entries) ==
    IF entries = <<>> THEN <<>>
    ELSE LET e == Head(entries)
             here ==
               CASE e.kind = "inline" ->
                      <<[keys |-> <<e.name>>, inline |-> TRUE, fields |-> e.fields]>>
                 [] e.kind = "str" ->
                      <<[keys |-> <<e.name>>, inline |-> FALSE, fields |-> <<>>]>>
                 [] e.kind = "dotted" ->
                      [i \in 1..Len(e.fields) |->
                         [keys |-> <<e.name, e.fields[i].k>>, inline |-> FALSE,
                          fields |-> <<>>]]
                 [] OTHER -> <<>>
         IN  here \o GetValues(Tail(entries))

\* get_non_default_features_deps: ok is FALSE where it returns Err.
GetNonDefaultFeaturesDeps(toml) ==
    IF toml.dependencies.kind # "table" THEN [ok |-> FALSE, deps |-> <<>>]
    ELSE LET values == GetValues(toml.dependencies.entries)
             NonDefault(x) ==
                /\ x.inline
                /\ \E i \in 1..Len(x.fields) :
                      /\ x.fields[i].k = "default-features"
                      /\ AsBool(x.fields[i].v).some
                      /\ ~AsBool(x.fields[i].v).v
             kept == SelectSeq(values, NonDefault)
         IN  [ok |-> TRUE, deps |-> [i \in 1..Len(kept) |-> kept[i].keys[1]]]

\* val.split('/').nth(0): the tokens before the first "/".
RECURSIVE SplitNth0(_)
SplitNth0(val) ==
    IF val = <<>> \/ Head(val) = "/" THEN <<>>
    ELSE <<Head(val)>> \o SplitNth0(Tail(val))

\* get_std_crates: ok is FALSE where it returns Err.
GetStdCrates(toml) ==
    IF toml.features.kind # "table" THEN [ok |-> FALSE, values |-> <<>>]
    ELSE IF toml.features.std.kind # "array" THEN [ok |-> FALSE, values |-> <<>>]
    ELSE LET strs == SelectSeq(toml.features.std.items, LAMBDA val : val.t = "str")
         IN  [ok |-> TRUE, values |-> [i \in 1..Len(strs) |-> SplitNth0(strs[i].v)]]

\* check_toml: the lines it prints, and ok FALSE where it returns Err.
CheckToml(path, toml) ==
    IF ~toml.parses THEN [ok |-> FALSE, lines |-> <<>>]
    ELSE LET non_default_features_deps == GetNonDefaultFeaturesDeps(toml)
             std_crates == GetStdCrates(toml)
             Missing(dep) ==
                ~\E i \in 1..Len(std_crates.values) : std_crates.values[i] = <<dep>>
             missing == SelectSeq(non_default_features_deps.deps, Missing)
         IN  IF ~non_default_features_deps.ok \/ ~std_crates.ok
             THEN [ok |-> FALSE, lines |-> <<>>]
             ELSE [ok |-> TRUE,
                   lines |-> [i \in 1..Len(missing) |->
                                [path |-> path, dep |-> missing[i]]]]

\* Lines 18-23: --path has to name a directory.
CheckStart ==
    /\ cf_pc = "start"
    /\ cf_pc' = IF cf_req.is_dir THEN "walk" ELSE "failed"
    /\ UNCHANGED <<cf_req, cf_disk, cf_orig, cf_walk, cf_out, cf_errs>>
    /\ UNCHANGED <<update_vars, policy_vars, ws_vars, patch_vars>>

\* Lines 25-35, one file of the walk: a file named Cargo.toml is checked,
\* the Err of check_toml is logged and dropped.
CheckTomlStep ==
    /\ cf_pc = "walk"
    /\ \E path \in cf_walk :
          LET r == CheckToml(path, cf_disk[path])
          IN  /\ cf_walk' = cf_walk \ {path}
              /\ IF path[Len(path)] = "Cargo.toml"
                 THEN /\ cf_out' = cf_out \o r.lines
                      /\ cf_errs' = IF r.ok THEN cf_errs ELSE cf_errs \cup {path}
                 ELSE UNCHANGED <<cf_out, cf_errs>>
    /\ UNCHANGED <<cf_pc, cf_req, cf_disk, cf_orig>>
    /\ UNCHANGED <<update_vars, policy_vars, ws_vars, patch_vars>>

\* Line 36: the walk is over, the run returns Ok.
CheckFinish ==
    /\ cf_pc = "walk"
    /\ cf_walk = {}
    /\ cf_pc' = "done"
    /\ UNCHANGED <<cf_req, cf_disk, cf_orig, cf_walk, cf_out, cf_errs>>
    /\ UNCHANGED <<update_vars, policy_vars, ws_vars, patch_vars>>

NextCheckFeatures ==
    \/ CheckStart
    \/ CheckTomlStep
    \/ CheckFinish

(***************************************************************************)
(* The trees checked.                                                      *)
(***************************************************************************)
CfManifest(dependencies, features) ==
    [parses |-> TRUE, dependencies |-> dependencies, features |-> features]
CfBadManifest == [parses |-> FALSE, dependencies |-> NoItem, features |-> NoItem]

NoStd == [kind |-> "none", items |-> <<>>]
StdArray(items) == [kind |-> "array", items |-> items]
Features(std) == [kind |-> "table", std |-> std]
NoFeatures == [kind |-> "none", std |-> NoStd]

\* The ways `foo` is declared in [dependencies]:
\*   foo = { version = "1.0", default-features = false }
\*   foo = { version = "1.0", default-features = true }
\*   foo = { version = "1.0", default-features = "false" }
\*   foo = { version = "1.0" }
\*   foo = "1.0"
\*   [dependencies.foo] with default-features = false
\*   foo.version = "1.0" and foo.default-features = false
FooEntries ==
    { CfEntry("foo", "inline", <<CfField("version", CfValue("str", "1.0")),
                                 CfField("default-features", CfValue("bool", b))>>) :
        b \in {"false", "true"} }
    \cup
    { CfEntry("foo", "inline", <<CfField("version", CfValue("str", "1.0")),
                                 CfField("default-features", CfValue("str", "false"))>>),
      CfEntry("foo", "inline", <<CfField("version", CfValue("str", "1.0"))>>),
      CfEntry("foo", "str", <<>>),
      CfEntry("foo", "table", <<CfField("version", CfValue("str", "1.0")),
                                CfField("default-features", CfValue("bool", "false"))>>),
      CfEntry("foo", "dotted", <<CfField("version", CfValue("str", "1.0")),
                                 CfField("default-features", CfValue("bool", "false"))>>) }

BarEntry == CfEntry("bar", "inline", <<CfField("default-features", CfValue("bool", "false"))>>)

\* No [dependencies], `dependencies = 1`, or a table with foo, and bar
\* after it or not.
DependenciesItems ==
    {NoItem, ValueItem}
    \cup {TableItem(<<e>>) : e \in FooEntries}
    \cup {TableItem(<<e, BarEntry>>) : e \in FooEntries}

\* The feature strings of `std`: "foo", "foo/std", "foo?/std", "dep:foo",
\* "bar/std", and a value that is no string.
StdItems ==
    { <<>>,
      <<CfValue("str", <<"foo">>)>>,
      <<CfValue("str", <<"foo", "/", "std">>)>>,
      <<CfValue("str", <<"foo", "?", "/", "std">>)>>,
      <<CfValue("str", <<"dep:", "foo">>)>>,
      <<CfValue("int", <<>>), CfValue("str", <<"bar", "/", "std">>)>> }

\* No [features], `features = 1`, a table without `std`, `std = 1`, or
\* `std` an array.
FeaturesItems ==
    { NoFeatures,
      [kind |-> "value", std |-> NoStd],
      Features(NoStd),
      Features([kind |-> "value", items |-> <<>>]) }
    \cup {Features(StdArray(items)) : items \in StdItems}

CfManifests ==
    {CfBadManifest}
    \cup {CfManifest(d, f) : d \in DependenciesItems, f \in FeaturesItems}

\* The manifests beside the root one: one that is not TOML, one without
\* [features], one whose `std` misses bar.
OtherManifests ==
    { CfBadManifest,
      CfManifest(TableItem(<<BarEntry>>), NoFeatures),
      CfManifest(TableItem(<<BarEntry>>), Features(StdArray(<<>>))) }

\* The files below --path: Cargo.toml, beside it a lock file, and a second
\* manifest in a directory, in the build directory or in a hidden one.
CheckTrees ==
    {[path \in {<<"Cargo.toml">>, <<"Cargo.lock">>} \cup S |->
        IF path = <<"Cargo.toml">> THEN root
        ELSE IF path = <<"Cargo.lock">> THEN CfBadManifest
        ELSE other] :
        S \in {{}, {<<"frame", "Cargo.toml">>}, {<<"target", "Cargo.toml">>},
               {<<".git", "Cargo.toml">>}},
        root \in CfManifests,
        other \in OtherManifests}

InitCheckFeatures ==
    /\ cf_pc = "start"
    /\ cf_req \in {[is_dir |-> b] : b \in BOOLEAN}
    /\ cf_disk \in CheckTrees
    /\ cf_orig = cf_disk
    /\ cf_walk = DOMAIN cf_disk
    /\ cf_out = <<>>
    /\ cf_errs = {}
    /\ UpdateIdle
    /\ PolicyIdle
    /\ WsIdle
    /\ PatchIdle

SpecCheckFeatures == InitCheckFeatures /\ [][NextCheckFeatures]_vars

(***************************************************************************)
(* Properties of one entry under one policy (SpecPolicy).                  *)
(***************************************************************************)
RefFieldNames == {"tag", "branch", "rev"}
SourceKinds == {"git", "path", "version"}

\* The repository name each family flag stands for.
KnownRepoName(t) ==
    CASE t = "Substrate" -> "substrate"
      [] t = "Polkadot" -> "polkadot"
      [] t = "Cumulus" -> "cumulus"
      [] t = "Beefy" -> "grandpa-bridge-gadget"

\* The field named by a ref target.
TargetField(k) ==
    CASE k.t = "Tag" -> "tag"
      [] k.t = "Branch" -> "branch"
      [] k.t = "Rev" -> "rev"

\* The fields of an entry outside `keys`, with their values, decoration and order.
Without(dep, keys) == SelectSeq(dep, LAMBDA f : f.k \notin keys)

\* The fields of an entry within `keys`, with their values, decoration and order.
Only(dep, keys) == SelectSeq(dep, LAMBDA f : f.k \in keys)

\* How many fields of the entry have the key.
Count(dep, k) == Len(SelectSeq(dep, LAMBDA f : f.k = k))

\* The effective package name: the `package` field if present, else the key.
EffectiveName(name, dep) ==
    IF \E i \in 1..Len(dep) : dep[i].k = "package"
    THEN dep[CHOOSE i \in 1..Len(dep) : dep[i].k = "package"].v
    ELSE name

\* The entry has a git field whose URL parses to the family's repository name.
InFamily(dep, t) ==
    /\ Get(dep, "git").some
    /\ GitUrlParse(Get(dep, "git").v).some
    /\ GitUrlParse(Get(dep, "git").v).v = KnownRepoName(t)

FamilyRef == p_policy = "ref" /\ p_req.rewrite.t # "All"

\* The entry came out pinned to the target of the request.
PinnedToTarget ==
    /\ p_out.updated
    /\ Get(p_out.dep, TargetField(p_req.key)) = SomeStr(p_req.key.v)

\* C3 as stated: under a family-scoped pin-to-ref rewrite an entry is
\* rewritten if and only if its git URL parses and its repository name is
\* the family's; every other entry is left untouched.
C3_ScopeAsStated ==
    FamilyRef =>
        /\ PinnedToTarget <=> InFamily(p_in, p_req.rewrite.t)
        /\ ~InFamily(p_in, p_req.rewrite.t) => p_out.dep = p_in

\* C3, amended: under a family-scoped pin-to-ref rewrite an entry whose
\* effective package name is not excluded is rewritten if and only if its
\* git URL parses and its repository name is the family's; an entry of
\* another repository, with an unparsable URL, without a git field, or with
\* an excluded package name is left untouched.
C3_ScopeCorrectness ==
    FamilyRef =>
        LET matches == /\ InFamily(p_in, p_req.rewrite.t)
                       /\ EffectiveName(p_name, p_in) \notin p_req.excluded_packages
        IN  /\ PinnedToTarget <=> matches
            /\ ~matches => p_out.dep = p_in /\ ~p_out.updated

C3_Witness ==
    /\ FamilyRef
    /\ p_req.rewrite.t = "Beefy"
    /\ p_req.excluded_packages = {"foo"}
    /\ Get(p_in, "package") = SomeStr("bar")
    /\ PinnedToTarget
    /\ p_out.dep # p_in

\* C4: after a pin-to-ref rewrite of a matched entry, the entry has exactly
\* one of tag, branch, rev: the target's field with the target's value; its
\* git field is the replacement URL when one was supplied and is unchanged
\* otherwise; every other field is unchanged.
C4_PinToRefPostcondition ==
    (p_policy = "ref" /\ p_out.updated) =>
        /\ KeysOf(p_out.dep) \cap RefFieldNames = {TargetField(p_req.key)}
        /\ Count(p_out.dep, TargetField(p_req.key)) = 1
        /\ Get(p_out.dep, TargetField(p_req.key)) = SomeStr(p_req.key.v)
        /\ Count(p_out.dep, "git") = 1
        /\ Get(p_out.dep, "git") =
             IF p_req.rewrite.t # "All" /\ p_req.rewrite.git.some
             THEN p_req.rewrite.git ELSE Get(p_in, "git")
        /\ Without(p_out.dep, RefFieldNames \cup {"git"})
             = Without(p_in, RefFieldNames \cup {"git"})

C4_Witness ==
    /\ p_policy = "ref"
    /\ p_out.updated
    /\ p_req.key.t = "Tag"
    /\ p_req.rewrite.git.some
    /\ {"git", "branch", "rev", "tag", "path", "version"} \subseteq KeysOf(p_in)
    /\ Get(p_out.dep, "git") # Get(p_in, "git")

\* C5: after a pin-to-ref rewrite of a matched entry the entry has no
\* `workspace` field.
C5_PinToRefClearsWorkspace ==
    (p_policy = "ref" /\ p_out.updated) => ~ContainsKey(p_out.dep, "workspace")

\* C6: after a successful pin-to-version rewrite the entry has a version
\* field equal to the resolved version and none of git, path, tag, branch, rev.
C6_VersionMutualExclusion ==
    (p_policy = "version" /\ p_out.updated) =>
        /\ p_out.version.some
        /\ Get(p_out.dep, "version") = p_out.version
        /\ Count(p_out.dep, "version") = 1
        /\ KeysOf(p_out.dep) \cap ({"git", "path"} \cup RefFieldNames) = {}

C6_Witness ==
    /\ p_policy = "version"
    /\ p_out.updated
    /\ {"git", "path", "tag", "branch", "rev", "version"} \subseteq KeysOf(p_in)
    /\ Get(p_out.dep, "version") = SomeStr("2.0")

\* C7 as stated: after any policy has rewritten an entry, at most one of
\* git, path, version is present.
C7_SingleSourceAsStated ==
    (p_policy \in {"ref", "version", "collapse"} /\ p_out.updated) =>
        Cardinality(KeysOf(p_out.dep) \cap SourceKinds) <= 1

\* C7, amended: after pin-to-version or collapse-to-local-path has
\* rewritten an entry, at most one of git, path, version is present;
\* pin-to-ref keeps the git field and leaves the path and version fields
\* as they were.
C7_SingleSourceKind ==
    /\ (p_policy \in {"version", "collapse"} /\ p_out.updated) =>
          Cardinality(KeysOf(p_out.dep) \cap SourceKinds) <= 1
    /\ (p_policy = "ref" /\ p_out.updated) =>
          /\ "git" \in KeysOf(p_out.dep)
          /\ Only(p_out.dep, {"path", "version"}) = Only(p_in, {"path", "version"})

C7_Witness ==
    /\ p_policy = "collapse"
    /\ p_out.updated
    /\ SourceKinds \subseteq KeysOf(p_in)
    /\ KeysOf(p_out.dep) \cap SourceKinds = {"path"}

(***************************************************************************)
(* Properties of Update runs (Spec).                                       *)
(***************************************************************************)
\* The places <<manifest, table, entry>> of a tree.
PlacesOf(tree) ==
    UNION {UNION {{<<i, t, e>> : e \in 1..Len(tree[i].tables[t].entries)} :
                  t \in 1..Len(tree[i].tables)} :
           i \in 1..Len(tree)}

EntryAt(tree, pl) == tree[pl[1]].tables[pl[2]].entries[pl[3]]

\* The exclusion set the document stands for: for each inline-table entry
\* of its diener_exclude table the `package` value if present, else the key.
ExclusionSetOf(doc) ==
    IF ~doc.some \/ ~doc.parses THEN {}
    ELSE LET inline(t) == {e \in 1..Len(doc.tables[t].entries) :
                             doc.tables[t].entries[e].inline}
         IN  UNION {{EffectiveName(doc.tables[t].entries[e].name,
                                   doc.tables[t].entries[e].dep) : e \in inline(t)} :
                    t \in {t \in 1..Len(doc.tables) :
                             doc.tables[t].key = "diener_exclude"}}

\* The entry is one the request rewrites: an inline table of a dependency
\* table, not excluded, and, for a ref target, with a git URL that parses
\* and is in scope.
MatchesRequest(table, entry) ==
    /\ table.key \in {"dependencies", "dev-dependencies", "build-dependencies"}
    /\ entry.inline
    /\ EffectiveName(entry.name, entry.dep) \notin ExclusionSetOf(exclude_doc)
    /\ key.t \in RefKinds =>
          /\ Get(entry.dep, "git").some
          /\ GitUrlParse(Get(entry.dep, "git").v).some
          /\ rewrite.t # "All" =>
                GitUrlParse(Get(entry.dep, "git").v).v = KnownRepoName(rewrite.t)

NoMatchIn(manifest) ==
    \A t \in 1..Len(manifest.tables) :
        \A e \in 1..Len(manifest.tables[t].entries) :
            ~MatchesRequest(manifest.tables[t], manifest.tables[t].entries[e])

\* C1: running the same request again on the tree the first run left
\* changes nothing: no entry handled by the second run changes, and every
\* manifest it writes is the manifest the first run left.
C1_Idempotence ==
    run = "second" =>
        /\ files = after_first
        /\ last.op = "dep" => last.after = last.before

C1_Witness ==
    /\ run = "second"
    /\ pc = "done"
    /\ Len(files) = 2
    /\ key.t = "Version"
    /\ files[1] # orig[1]
    /\ files[2] # orig[2]

\* C2: a manifest in which no entry matches the request is written back as
\* it was read, and a non-matching entry of any manifest keeps its fields,
\* values and field order.
C2_FormatPreservation ==
    run = "first" =>
        /\ \A i \in 1..Len(files) : NoMatchIn(orig[i]) => files[i] = orig[i]
        /\ \A pl \in PlacesOf(orig) :
              ~MatchesRequest(orig[pl[1]].tables[pl[2]], EntryAt(orig, pl))
                  => EntryAt(files, pl) = EntryAt(orig, pl)
        /\ (pc = "deps" /\ NoMatchIn(orig[file_idx]))
              => toml_doc = orig[file_idx].tables

C2_Witness ==
    /\ run = "first"
    /\ pc = "done"
    /\ Len(files) = 2
    /\ key.t = "Branch"
    /\ rewrite.t = "All"
    /\ <<1, 1, 1>> \in PlacesOf(orig)
    /\ NoMatchIn(orig[1])
    /\ Get(EntryAt(orig, <<1, 1, 1>>).dep, "path").some
    /\ files[1] = orig[1]
    /\ files[2] # orig[2]

\* C8: the exclusion set holds, for each inline-table entry of the
\* document's diener_exclude table, the `package` value if present and
\* otherwise the key; an entry whose effective package name is in it is
\* never modified.
C8_Exclusion ==
    /\ pc \in {"walk", "deps", "done"} =>
          excluded_packages = ExclusionSetOf(exclude_doc)
    /\ \A pl \in PlacesOf(orig) :
          EffectiveName(EntryAt(orig, pl).name, EntryAt(orig, pl).dep)
                \in ExclusionSetOf(exclude_doc)
              => EntryAt(files, pl) = EntryAt(orig, pl)
    /\ (last.op = "dep" /\ EffectiveName(last.name, last.before)
                              \in ExclusionSetOf(exclude_doc))
          => last.after = last.before /\ ~last.updated

C8_Witness ==
    /\ pc = "done"
    /\ Len(files) = 2
    /\ ExclusionSetOf(exclude_doc) = {"bar", "qux"}
    /\ <<1, 1, 1>> \in PlacesOf(orig)
    /\ EntryAt(orig, <<1, 1, 1>>).name = "foo"
    /\ Get(EntryAt(orig, <<1, 1, 1>>).dep, "package") = SomeStr("bar")
    /\ files[1] = orig[1]
    /\ files[2] # orig[2]

\* The version the source of the request records for a package.
RecordedVersion(package) ==
    IF key.source = "CratesIO" THEN world.crates_io[package]
    ELSE IF ~world.lock.some THEN NoneStr
    ELSE LET body == world.lock.v
             hits == {i \in 1..Len(body) :
                         body[i].name = package /\ body[i].version.some}
         IN  IF hits = {} THEN NoneStr
             ELSE body[CHOOSE i \in hits : \A j \in hits : i <= j].version

\* C9: the version pin-to-version writes into an entry is the version the
\* source records for the entry's effective package name.
C9_VersionOfEffectiveName ==
    (key.t = "Version" /\ last.op = "dep" /\ last.updated) =>
        Get(last.after, "version")
            = RecordedVersion(EffectiveName(last.name, last.before))

\* C10: in one run at most one resolution is performed for any package
\* name, and the lock body is fetched at most once.
C10_OneFetchPerPackage ==
    /\ \A n \in Names : resolutions[n] <= 1
    /\ lock_fetches <= 1

(***************************************************************************)
(* Properties of the walk of Update::run over manifests that fail (Spec).  *)
(***************************************************************************)
\* The exclusion document was read and parsed, so the walk was started.
WalkStarted == ~(exclude_doc.some /\ ~exclude_doc.parses)

\* C11: a manifest that does not parse is skipped and left as it was, every
\* other manifest of the tree is handled and written, and the run returns
\* Ok.
C11_BadManifestSkipped ==
    (pc \in {"done", "failed"} /\ WalkStarted) =>
        /\ pc = "done"
        /\ \A i \in 1..Len(files) : files[i].parses <=> i \in written

(***************************************************************************)
(* Properties of a failed version resolution (SpecResolution).             *)
(***************************************************************************)
\* The manifests in which the handling of some entry returned Err.
FilesWithFailure == {f[1] : f \in failures}

\* The entry at the place was rewritten by pin-to-version.
PinnedToVersion(entry) ==
    /\ Get(entry.dep, "version").some
    /\ ~Get(entry.dep, "path").some
    /\ ~Get(entry.dep, "git").some

\* C12 as stated: a resolution failure leaves the per-file handler as its
\* error, so the manifest of the entry is not written; the walk goes on and
\* the run is not failed by it.
C12_FailureFatalToFile ==
    /\ \A i \in FilesWithFailure : i \notin written
    /\ (pc = "failed" /\ WalkStarted) => ~files[file_idx].parses

\* C12, amended: a resolution failure is fatal to the entry only.  The
\* entry is left as it was and the handler goes on: the entries of the
\* manifest whose resolution succeeds are pinned, the manifest is written,
\* the walk continues, and the run fails on no resolution failure.
C12_FailureFatalToEntry ==
    /\ (last.op = "dep" /\ last.err) =>
          /\ last.after = last.before
          /\ pc = "deps"
    /\ (pc = "failed" /\ WalkStarted) => ~files[file_idx].parses
    /\ (pc \in {"walk", "done"} /\ run = "first") =>
          \A i \in 1..Len(files) :
             (i < file_idx /\ files[i].parses) =>
                /\ i \in written
                /\ \A pl \in PlacesOf(files) :
                      pl[1] = i =>
                         IF pl \in failures
                         THEN EntryAt(files, pl) = EntryAt(orig, pl)
                         ELSE PinnedToVersion(EntryAt(files, pl))

\* A run that ended Ok although the first entry of its first manifest
\* failed to resolve; the second entry of that manifest was pinned, and so
\* was an entry of the next manifest.
C12_Witness ==
    /\ pc = "done"
    /\ run = "first"
    /\ Len(files) = 2
    /\ <<1, 1, 1>> \in failures
    /\ <<1, 1, 2>> \in PlacesOf(files) \ failures
    /\ files[1] # orig[1]
    /\ \E pl \in PlacesOf(files) \ failures : pl[1] = 2

(***************************************************************************)
(* Properties of the command line (SpecCli).                               *)
(***************************************************************************)
\* `update --branch <b>` and nothing else: no scope flag, no --git.
OnlyBranch ==
    /\ opts.branch.some
    /\ ~opts.git.some
    /\ ~(opts.all \/ opts.substrate \/ opts.polkadot \/ opts.cumulus \/ opts.beefy)

\* C20: `diener update --branch <b>` without a scope flag is a run that
\* moves the Substrate, Polkadot and Cumulus dependencies of the tree to
\* branch <b>.
C20_UpdateWithoutFamilyFlag ==
    OnlyBranch =>
        /\ pc # "rejected"
        /\ pc = "done" =>
              \A pl \in PlacesOf(orig) :
                 (\E t \in {"Substrate", "Polkadot", "Cumulus"} :
                     InFamily(EntryAt(orig, pl).dep, t))
                 => Get(EntryAt(files, pl).dep, "branch") = opts.branch

(***************************************************************************)
(* Properties of the Workspace Unifier (SpecWorkspacify).                  *)
(***************************************************************************)
\* The manifests the tree walk discovers, and those of them that declare a
\* package name.
Discovered == ManifestIter(Workspace, ws_orig)
Declaring == {m \in Discovered : ws_orig[m].parses /\ ws_orig[m].name.some}

\* Two discovered manifests declare the same package name.
Collision ==
    \E a, b \in Declaring : a # b /\ ws_orig[a].name = ws_orig[b].name

AllParse == \A m \in Discovered : ws_orig[m].parses

\* C13: with two discovered manifests of one package name the run fails
\* and has written no file; without such a pair the run is not failed for
\* duplicates and goes on to the rewriting steps.
C13_CollisionBeforeMutation ==
    /\ Collision =>
          /\ ws_pc \in {"index", "failed"}
          /\ ws_disk = ws_orig
          /\ ws_log = <<>>
    /\ (Collision /\ AllParse /\ ws_pc = "failed") => ws_err = "duplicates"
    /\ (~Collision /\ AllParse /\ ws_pc = "failed") => ws_err \in {"members", "rewrite"}

\* A run that failed for the duplicates of a name.
C13_Witness ==
    /\ ws_pc = "failed"
    /\ ws_err = "duplicates"
    /\ Collision
    /\ ws_disk = ws_orig

\* The directory of a manifest, relative to the workspace root.
RelDir(manifest) ==
    PathString(SubSeq(manifest, Len(Workspace) + 1, Len(manifest) - 1))

\* Step (2) has completed.
MembersWritten ==
    ws_pc \in {"rewrite", "done"} \/ (ws_pc = "failed" /\ ws_err = "rewrite")

\* C14: once step (2) has completed, the root manifest exists and its
\* workspace.members holds, for each package of the index once, the
\* directory of the package relative to the root, in the order of the
\* manifest paths; nothing of a previous value is left.
C14_WorkspaceMembers ==
    MembersWritten =>
        LET root == ws_disk[RootManifest]
            members == root.workspace.members
            indexed == {packages[n] : n \in DOMAIN packages}
            ManifestOf(member) == CHOOSE m \in indexed : RelDir(m) = member
        IN  /\ root.exists
            /\ root.workspace.kind = "table"
            /\ Len(members) = Cardinality(DOMAIN packages)
            /\ {members[i] : i \in 1..Len(members)} = {RelDir(m) : m \in indexed}
            /\ \A i, j \in 1..Len(members) :
                  i < j => PathLess(ManifestOf(members[i]), ManifestOf(members[j]))

\* A finished run over a workspace that had no root manifest and has two
\* packages.
C14_Witness ==
    /\ ws_pc = "done"
    /\ ~ws_orig[RootManifest].exists
    /\ Cardinality(DOMAIN packages) = 2
    /\ Len(ws_disk[RootManifest].workspace.members) = 2

\* The package manifests step (3) has written so far.
Rewritten == {ws_log[i] : i \in 2..Len(ws_log)}

\* C15: the first write of a run is the members list of the root manifest
\* and every later write is a package manifest; if step (2) fails no
\* package manifest is written; if step (3) fails at some manifest, the
\* root manifest keeps its members list, the manifests already rewritten
\* stay rewritten and the others are as they were.
C15_MembersBeforeRewrite ==
    /\ ws_pc \in {"index", "members"} => ws_log = <<>>
    /\ ws_log # <<>> => ws_log[1] = RootManifest
    /\ Rewritten \subseteq {packages[n] : n \in DOMAIN packages}
    /\ (ws_pc = "failed" /\ ws_err = "members") =>
          /\ ws_log = <<>>
          /\ \A p \in DOMAIN ws_disk : p # RootManifest => ws_disk[p] = ws_orig[p]
    /\ (ws_pc = "failed" /\ ws_err = "rewrite") =>
          /\ ws_log # <<>>
          /\ ws_disk[RootManifest].workspace
                = [kind |-> "table", members |-> Members(Workspace, packages)]
          /\ \A p \in DOMAIN ws_disk :
                IF p \in Rewritten
                THEN ws_disk[p].tables = HandleDeps(ws_orig[p].tables, p, packages)
                ELSE p # RootManifest => ws_disk[p] = ws_orig[p]

\* Step (3) failed at a manifest after it had rewritten another and before
\* it came to a third.
C15_Witness ==
    /\ ws_pc = "failed"
    /\ ws_err = "rewrite"
    /\ Len(ws_log) = 2
    /\ ws_disk[ws_log[2]] # ws_orig[ws_log[2]]
    /\ ws_todo # {}

\* The entry is an inline table that names a package of the index.
Internal(entry) ==
    entry.inline /\ EffectiveName(entry.name, entry.dep) \in DOMAIN packages

\* The entry has been collapsed to a local path.
Collapsed(entry) ==
    /\ Get(entry.dep, "path").some
    /\ \A k \in {"git", "branch", "version", "workspace"} : ~Get(entry.dep, k).some

\* Every internal entry of the dependency tables of the manifest has been
\* collapsed.
CollapsedIn(m) ==
    \A t \in 1..Len(ws_orig[m].tables) :
       ContainsDependencies(ws_orig[m].tables[t].key) =>
          \A e \in 1..Len(ws_orig[m].tables[t].entries) :
             Internal(ws_orig[m].tables[t].entries[e])
             => Collapsed(ws_disk[m].tables[t].entries[e])

\* C16 as stated: after a run, every internal dependency entry of every
\* manifest the tree walk discovered has been collapsed.
C16_EveryDiscoveredManifest ==
    ws_pc = "done" => \A m \in Discovered : CollapsedIn(m)

\* C16, amended: after a run, every internal dependency entry of every
\* discovered manifest that declares a package name has been collapsed; a
\* discovered manifest without a package name is left as it was.
C16_EveryPackageManifest ==
    ws_pc = "done" =>
        /\ \A m \in Declaring : CollapsedIn(m)
        /\ \A m \in Discovered \ (Declaring \cup {RootManifest}) :
              ws_disk[m] = ws_orig[m]

\* A finished run over two package manifests with internal entries in two
\* dependency tables each.
C16_Witness ==
    /\ ws_pc = "done"
    /\ DOMAIN packages = {"foo", "bar"}
    /\ \A n \in DOMAIN packages :
          /\ ws_orig[packages[n]].tables = WsTables
          /\ ws_disk[packages[n]].tables # WsTables
          /\ CollapsedIn(packages[n])

(***************************************************************************)
(* Properties of collapse-to-local-path on one entry (SpecPolicy).         *)
(***************************************************************************)
\* The directory a relative path leads to from a directory.
RECURSIVE Resolve(_, _)
Resolve(dir, rel) ==
    IF rel = <<>> THEN dir
    ELSE IF Head(rel) = ".." THEN Resolve(Parent(dir), Tail(rel))
    ELSE Resolve(Append(dir, Head(rel)), Tail(rel))

\* The relative paths between the directories of the workspaces checked.
RelPaths == SeqsUpTo({"..", "foo", "crates", "bar"}, 3)

\* C17: collapse-to-local-path on an entry whose effective name is in the
\* index leaves a `path` that leads from the directory of the manifest
\* being rewritten to the directory of the package, and none of git,
\* branch, version, workspace; an entry whose effective name is not in
\* the index keeps its fields, their values and their order.
C17_CollapsePostcondition ==
    p_policy = "collapse" =>
        LET index == p_req.packages
            pkg == EffectiveName(p_name, p_in)
            out == p_out.dep
        IN  IF pkg \in DOMAIN index
            THEN /\ Count(out, "path") = 1
                 /\ \E rel \in RelPaths :
                       /\ Get(out, "path").v = PathString(rel)
                       /\ Resolve(Parent(p_req.path), rel) = Parent(index[pkg])
                 /\ \A k \in {"git", "branch", "version", "workspace"} :
                       ~Get(out, k).some
            ELSE out = p_in

\* An entry that names package bar through `package` and carries git,
\* version and workspace, collapsed in the manifest of ws/crates/bar to the
\* package at ws/foo.
C17_Witness ==
    /\ p_policy = "collapse"
    /\ Get(p_in, "package") = SomeStr("bar")
    /\ \A k \in {"git", "version", "workspace"} : Get(p_in, k).some
    /\ p_req.path = <<"ws", "crates", "bar", "Cargo.toml">>
    /\ Get(p_out.dep, "path") = SomeStr("../../foo")

(***************************************************************************)
(* Properties of the Patch-Section Composer (SpecPatch).                   *)
(***************************************************************************)
\* The [patch.<target>] table of a manifest, as the sequence of its entries.
PatchEntriesOf(manifest) ==
    LET target == PatchTargetAsString(PatchTargetOf(patch_req.opts))
    IN  IF manifest.patch.kind = "table" /\ target \in DOMAIN manifest.patch.targets
        THEN manifest.patch.targets[target].entries
        ELSE <<>>

\* The names of the fields the requested mode writes.
ModeKeys ==
    IF ~patch_req.opts.point_to_git.some THEN {"path"}
    ELSE IF patch_req.opts.point_to_git_branch.some THEN {"git", "branch"}
    ELSE {"git", "rev"}

\* The inline table has the fields of the requested mode, for a package
\* in directory `dir`.
ModeFields(dep, dir) ==
    IF ~patch_req.opts.point_to_git.some
    THEN Get(dep, "path") = SomeStr(PathString(dir))
    ELSE /\ Get(dep, "git") = patch_req.opts.point_to_git
         /\ IF patch_req.opts.point_to_git_branch.some
            THEN Get(dep, "branch") = patch_req.opts.point_to_git_branch
            ELSE Get(dep, "rev") = patch_req.opts.point_to_git_commit

IsCrate(rel) ==
    /\ rel[Len(rel)] = "Cargo.toml"
    /\ patch_req.tree[rel].parses
    /\ patch_req.tree[rel].name.some
    /\ \A i \in 1..(Len(rel) - 1) : rel[i] \notin {".git"}

\* C19: after a Patch run the table of the target has an entry for every
\* crate found below --crates-to-patch, whatever the form of that path.
C19_PatchCoversEveryCrate ==
    patch_pc = "done" =>
        \A rel \in DOMAIN patch_req.tree :
           IsCrate(rel) =>
              \E e \in 1..Len(PatchEntriesOf(patch_disk)) :
                 PatchEntriesOf(patch_disk)[e].name = patch_req.tree[rel].name.v

(***************************************************************************)
(* Properties of check-features (SpecCheckFeatures).                       *)
(***************************************************************************)
CfManifestPaths == {path \in DOMAIN cf_disk : path[Len(path)] = "Cargo.toml"}

\* The dependencies a manifest declares with `default-features = false`,
\* in whichever form the entry is written.
DeclaredOptOut(toml) ==
    IF ~toml.parses \/ toml.dependencies.kind # "table" THEN {}
    ELSE {toml.dependencies.entries[i].name :
            i \in {i \in 1..Len(toml.dependencies.entries) :
                     LET e == toml.dependencies.entries[i]
                     IN  \E j \in 1..Len(e.fields) :
                            /\ e.fields[j].k = "default-features"
                            /\ e.fields[j].v = CfValue("bool", "false")}}

\* The dependency is named by a string of the manifest's `std` feature:
\* "dep", "dep/feature", "dep?/feature" or "dep:dep".
InStdFeature(toml, dep) ==
    /\ toml.features.kind = "table"
    /\ toml.features.std.kind = "array"
    /\ \E i \in 1..Len(toml.features.std.items) :
          LET val == toml.features.std.items[i]
          IN  /\ val.t = "str"
              /\ \/ val.v[1] = dep
                 \/ val.v[1] = "dep:" /\ val.v[2] = dep

Reported(path, dep) ==
    \E i \in 1..Len(cf_out) : cf_out[i] = [path |-> path, dep |-> dep]

\* C21: when check-features has run, a dependency of a Cargo.toml under the
\* path is reported if and only if the manifest declares it with
\* `default-features = false` and its `std` feature, if it has one, does not
\* name it; no file was modified and every manifest was checked, whatever
\* happened on the others.
C21_CheckFeaturesReport ==
    cf_pc = "done" =>
        /\ cf_disk = cf_orig
        /\ cf_walk = {}
        /\ \A path \in CfManifestPaths : \A dep \in {"foo", "bar"} :
              Reported(path, dep) <=>
                 /\ dep \in DeclaredOptOut(cf_disk[path])
                 /\ ~InStdFeature(cf_disk[path], dep)

(***************************************************************************)
(* The order of the fields after collapse-to-local-path (SpecPolicy).      *)
(***************************************************************************)
\* The groups of the canonical order: package, the source fields, the
\* version and ref fields, default-features, features, optional, the rest.
CanonicalGroup(k) ==
    CASE k = "package" -> 0
      [] k \in {"git", "path"} -> 1
      [] k \in {"version", "branch", "tag", "rev"} -> 2
      [] k = "default-features" -> 3
      [] k = "features" -> 4
      [] k = "optional" -> 5
      [] OTHER -> 6

PositionOf(dep, k) == CHOOSE i \in 1..Len(dep) : dep[i].k = k

\* C22: in an entry collapse-to-local-path has rewritten the fields stand
\* in the order package, git/path, version/branch/tag/rev,
\* default-features, features, optional, any other field, and two fields of
\* one group that the entry had before stand in the order they had.
C22_CanonicalFieldOrder ==
    (p_policy = "collapse" /\ p_out.updated) =>
        LET out == p_out.dep
        IN  /\ \A i, j \in 1..Len(out) :
                  i < j => CanonicalGroup(out[i].k) <= CanonicalGroup(out[j].k)
            /\ \A a, b \in KeysOf(out) \cap KeysOf(p_in) :
                  (CanonicalGroup(a) = CanonicalGroup(b)
                   /\ PositionOf(p_in, a) < PositionOf(p_in, b))
                  => PositionOf(out, a) < PositionOf(out, b)

(***************************************************************************)
(* The entries per-file processing considers (SpecEligible).               *)
(***************************************************************************)
\* The key path of the table contains the `dependencies` marker.
KeyPathContainsDependencies(header) ==
    \E i \in 1..Len(KeyPath(header)) : ContainsDependencies(KeyPath(header)[i])

\* The places of the entries that are inline tables in such a table.
EligiblePlaces(doc) ==
    UNION {{<<t, e>> : e \in {e \in 1..Len(doc[t].entries) : doc[t].entries[e].inline}} :
           t \in {t \in 1..Len(doc) : KeyPathContainsDependencies(doc[t].key)}}

\* C23: when a manifest has been opened, the entries handle_dependency is
\* going to be called on are the inline tables of the tables whose key path
\* contains `dependencies`, the dependency tables below `workspace` and
\* `target` included; and in a manifest that was written, an entry of
\* another table, a string and a sub-table are as they were.
C23_EligibleEntries ==
    /\ (pc = "deps" /\ last = NoCall) =>
          {todo[i] : i \in 1..Len(todo)} = EligiblePlaces(toml_doc)
    /\ \A f \in written : \A t \in 1..Len(orig[f].tables) :
          \A e \in 1..Len(orig[f].tables[t].entries) :
             <<t, e>> \notin EligiblePlaces(orig[f].tables) =>
                files[f].tables[t].entries[e] = orig[f].tables[t].entries[e]

====
